---- MODULE Spec2Model ----
(***************************************************************************)
(* Render scheduling, invalidation, resizing and event redispatch of the   *)
(* nested render boundaries of pixi-three.                                 *)
(*                                                                         *)
(* A boundary is one place where a renderer draws into a target: the root  *)
(* CanvasView (boundary 0), and below it, alternating, a three.js scene    *)
(* rendered into a texture (PortalContent, odd boundaries) and a pixi      *)
(* scene rendered into a texture (PixiTexture, even boundaries > 0).  Each *)
(* boundary owns one render schedule (useRenderSchedule) whose parent is   *)
(* the boundary one level up (CanvasTreeContext).                          *)
(*                                                                         *)
(* The ticker callbacks of the boundaries are modelled as atomic actions.  *)
(* The three.js frame is advanced from a pixi prerender runner: on every   *)
(* ticker frame by the Application's render of its stage, and also from    *)
(* inside the render() of a pixi boundary.  Such a nested tick of a three  *)
(* boundary t leaves the same state as the tick of t taken just before the *)
(* tick of the pixi boundary (the only flag of the rendering boundary it   *)
(* can touch is set by t and cleared by the boundary's own signalFrame),   *)
(* so it is covered by the interleaving of atomic ticks.                   *)
(* What is not an interleaving is user code run by the render itself       *)
(* (onRender, scene callbacks): the invalidate() calls it makes are the    *)
(* parameter cb of Tick.                                                   *)
(***************************************************************************)
EXTENDS Integers, FiniteSets, Sequences, TLC

(***************************************************************************)
(* Bounds of the model.                                                    *)
(***************************************************************************)
\* number of nested boundaries: 0 = CanvasView, 1 = ThreeScene, 2 = PixiTexture
Depth == 3
\* ticker periods (1/60 s each) the clock of Spec may advance
MaxFrames == 2
\* sizes a host element or a texture may take (a size stands for width x height)
MaxSize == 2
\* device pixel ratios the window may take
MaxResolution == 2
\* clock resolution: performance.now() is counted in 1/TimeScale milliseconds
TimeScale == 3
\* ticks simulated by the fps-ceiling scenario (120 ticks are one second)
MaxFpsTicks == 130

(***************************************************************************)
(* Program constants.                                                      *)
(***************************************************************************)
\* milliseconds per second: minFrameTime = 1000 / fpsLimit
MsPerSecond == 1000

UnitsPerSecond == MsPerSecond * TimeScale
\* the fps ceilings a boundary of Spec may be given
FpsLimits == {30}
\* period of the display ticker of Spec, 60 Hz
TickerPeriod == UnitsPerSecond \div 60

Boundaries == 0 .. (Depth - 1)
Root == 0
NoParent == -1
NoLimit == 0
Undefined == -1
Sizes == 1 .. MaxSize
Resolutions == 1 .. MaxResolution

\* the boundary whose CanvasTreeContext a boundary's schedule reads
Parent(b) == IF b = Root THEN NoParent ELSE b - 1

\* the component that hosts boundary b
Kind(b) == IF b = Root THEN "canvas-view"
           ELSE IF b % 2 = 1 THEN "three-scene" ELSE "pixi-texture"

AncestorsOrSelf(b) == 0 .. b

VARIABLES
  frameloop,       \* [b -> "always" | "demand"], the frameloop prop
  fpsLimit,        \* [b -> NoLimit | fps], the fpsLimit prop
  frameRequested,  \* [b -> BOOLEAN], frameRequested.current
  lastFrameTime,   \* [b -> Undefined | time], lastFrameTime.current
  now,             \* performance.now()
  isVisible,       \* isVisible of CanvasViewContent
  pendingSize,     \* pendingSizeRef.current of the root
  appliedSize,     \* appliedSizeRef.current of the root
  sizeSnapshot,    \* [b -> [width, resolution]], sizeSnapshot.current of b's store
  hitArea,         \* width of the root container's hitArea rectangle
  targetSize,      \* [b -> [width, resolution]], size of b's render target
  lastOp,          \* history: the operation that led to this state
  watched,         \* history: the boundary whose renders phase follows
  phase,           \* history: "new" | "missed" | "quiet" | "idle" | "again" | "live"
  script,          \* position of the fps-ceiling scenario
  recent,          \* fps-ceiling scenario: render times of the last second
  platform,        \* supportsTouchEvents, supportsPointerEvents, globalThis.MouseEvent
  wasOver,         \* wasOverRef.current of the PixiTexture
  hostEvent,       \* history: the host event handled last
  prevOver,        \* history: wasOverRef.current before the host event handled last
  calls,           \* history: the points computeFn passed to dispatchEvent for it
  resolved,        \* history: the boundaries whose compute resolved a hit for it
  delivered,       \* history: the events handed to eventBoundary.mapEvent for it
  nulls,           \* history: null dispatches since the last dispatch of a point
  overBy,          \* history: the pointers whose last event was over the PixiTexture
  uvBoundsTree,    \* [geometry -> BOOLEAN], geometry.uvBoundsTree is set
  builds,          \* history: [geometry -> MeshBVH built since the last discard]
  call,            \* history: the library call made last and its outcome
  life,            \* GPU initialization, and each boundary's components and target
  clientWidth,     \* canvas.clientWidth of the root canvas (stands for width x height)
  eventBoundaries, \* _eventBoundaries of the event system: name -> EventBoundary
  rootEvents,      \* _rootEvents of the event system: name -> root events
  bound,           \* the options the handlers returned by the last bind() closed over
  subscribers,     \* subscribers.current of the root's store, in insertion order
  seen,            \* [subscriber -> the size its callback was given last]
  notified,        \* history: the callbacks the last notifySubscribers() invoked
  rootMounted,     \* whether the ThreeRoot component is mounted
  inits,           \* [call of initThree() -> how far it has run]
  runners,         \* the calls whose runner is in renderer.runners.prerender
  cleanupFn,       \* the state cleanupFn of ThreeRoot: the call it belongs to
  effectCleanup,   \* the cleanup the effect on [cleanupFn] returned last
  recordingState,  \* the state recordingState of useCanvasRecorder
  error,           \* the state error of useCanvasRecorder: whether it is set
  mediaRecorderRef, \* mediaRecorderRef.current: a MediaRecorder or NoRecorder
  recorders,       \* [MediaRecorder -> its state attribute, "none" before new]
  tasks,           \* the events of MediaRecorders queued for delivery
  completed,       \* history: [MediaRecorder -> calls of onComplete with its blob]
  hookMounted,     \* whether the component that uses the recorder is mounted
  lastCall         \* history: the function of the recorder that ran last

schedVars == <<frameloop, fpsLimit, frameRequested, lastFrameTime, now, isVisible>>
sizeVars == <<pendingSize, appliedSize, sizeSnapshot, hitArea, targetSize>>
histVars == <<lastOp, watched, phase>>
fpsVars == <<script, recent>>
eventVars ==
  <<platform, wasOver, hostEvent, prevOver, calls, resolved, delivered, nulls,
    overBy>>
subscriberVars == <<subscribers, seen, notified>>
runnerVars == <<rootMounted, inits, runners, cleanupFn, effectCleanup>>
recorderVars ==
  <<recordingState, error, mediaRecorderRef, recorders, tasks, completed,
    hookMounted, lastCall>>
moreVars ==
  <<clientWidth, eventBoundaries, rootEvents, bound, subscriberVars,
    runnerVars, recorderVars>>
auxVars == <<uvBoundsTree, builds, call, life, moreVars>>
vars == <<schedVars, sizeVars, histVars, fpsVars, eventVars, auxVars>>

(***************************************************************************)
(* useRenderSchedule                                                       *)
(***************************************************************************)
\* isFrameRequested(): elapsed < minFrameTime with minFrameTime = 1000 / fpsLimit
\* is compared without division: elapsed * fpsLimit < 1000 (in clock units).
\* Variant without the ceiling:
IsFrameRequested_NoCeiling(b) == frameRequested[b]

IsFrameRequested(b) ==
  IF ~frameRequested[b] THEN FALSE
  ELSE IF fpsLimit[b] # NoLimit /\ lastFrameTime[b] # Undefined
          /\ (now - lastFrameTime[b]) * fpsLimit[b] < UnitsPerSecond
       THEN FALSE
       ELSE TRUE

\* invalidate() of each boundary of the set bs, applied to the flags f
Invalidated(f, bs) == [x \in Boundaries |-> IF x \in bs THEN TRUE ELSE f[x]]

\* signalFrame(): the flags after it, starting from the flags f.
\* Variants that leave out parentContext?.invalidate(), that leave out the
\* clearing of the boundary's own flag, and that flag every other boundary:
SignalFrame_NoParent(f, b) == [f EXCEPT ![b] = FALSE]

SignalFrame_KeepsFlag(f, b) ==
  [x \in Boundaries |-> IF x = Parent(b) THEN TRUE ELSE f[x]]

SignalFrame_Broadcast(f, b) ==
  [x \in Boundaries |-> IF x = b THEN FALSE ELSE TRUE]

SignalFrame(f, b) ==
  [x \in Boundaries |->
     IF x = Parent(b) THEN TRUE ELSE IF x = b THEN FALSE ELSE f[x]]

\* signalFrame(): lastFrameTime after it
SignalFrameTime(b) ==
  IF fpsLimit[b] # NoLimit THEN [lastFrameTime EXCEPT ![b] = now]
  ELSE lastFrameTime

\* the condition of the tick callbacks: frameloop === "always" || isFrameRequested().
\* Variant that gates always mode too:
ShouldRender_DemandOnly(b) == IsFrameRequested(b)

ShouldRender(b) == frameloop[b] = "always" \/ IsFrameRequested(b)

\* the three.js frame (and with it the useFrame callback of every three
\* boundary) is advanced by the prerender runner of the pixi renderer, which
\* runs at every render of the renderer: the Application's own render of its
\* stage on every ticker frame, and the renders of the pixi boundaries
PrerenderRuns == TRUE

\* useTick({ isEnabled: isVisible }) of the root; the ticker callbacks of the
\* pixi textures carry no isEnabled
TickEnabled(b) ==
  CASE Kind(b) = "canvas-view" -> isVisible
    [] Kind(b) = "pixi-texture" -> TRUE
    [] Kind(b) = "three-scene" -> PrerenderRuns

(***************************************************************************)
(* The size store of a boundary (useCanvasTreeStore) and its subscriber    *)
(***************************************************************************)
\* updateSnapshot({ width, height })
UpdateSnapshotSize(snap, b, w) == [snap EXCEPT ![b].width = w]

\* updateSnapshot({ resolution })
UpdateSnapshotResolution(snap, b, r) == [snap EXCEPT ![b].resolution = r]

\* notifySubscribers() of the root store: the subscriber of CanvasViewContent
\* sets the hit area and resizes the render target to the snapshot
NotifiedHitArea(snap) == snap[Root].width

NotifiedTarget(snap) == [targetSize EXCEPT ![Root] = snap[Root]]

(***************************************************************************)
(* The ticker callback of a boundary                                       *)
(***************************************************************************)
\* the flags after a tick whose condition was false: the callback does nothing.
\* Variant that notifies the parent all the same:
AfterSkip_Propagates(b) == Invalidated(frameRequested, {Parent(b)})

AfterSkip(b) == frameRequested

\* the root applies a host size observed since its last render, before render().
\* Variant that renders at the size applied before:
ApplyPendingSize_Never == UNCHANGED sizeVars

ApplyPendingSize ==
  IF pendingSize # appliedSize
  THEN /\ appliedSize' = pendingSize
       /\ sizeSnapshot' = UpdateSnapshotSize(sizeSnapshot, Root, pendingSize)
       /\ hitArea' = NotifiedHitArea(sizeSnapshot')
       /\ targetSize' = NotifiedTarget(sizeSnapshot')
       /\ UNCHANGED pendingSize
  ELSE UNCHANGED sizeVars

\* render(), the callbacks run by the render (which call invalidate() on the
\* boundaries cb), then signalFrame()
RenderFrame(b, cb) ==
  /\ IF b = Root THEN ApplyPendingSize ELSE UNCHANGED sizeVars
  /\ frameRequested' = SignalFrame(Invalidated(frameRequested, cb), b)
  /\ lastFrameTime' = SignalFrameTime(b)

SkipFrame(b) ==
  /\ frameRequested' = AfterSkip(b)
  /\ UNCHANGED <<lastFrameTime, sizeVars>>

Tick(b, cb) ==
  /\ TickEnabled(b)
  /\ IF ShouldRender(b) THEN RenderFrame(b, cb) ELSE cb = {} /\ SkipFrame(b)
  /\ UNCHANGED <<frameloop, fpsLimit, now, isVisible>>

(***************************************************************************)
(* Operations of the environment                                           *)
(***************************************************************************)
\* invalidate() of boundary b, called from anywhere outside a render
Invalidate(b) ==
  /\ frameRequested' = Invalidated(frameRequested, {b})
  /\ UNCHANGED <<frameloop, fpsLimit, lastFrameTime, now, isVisible, sizeVars>>

\* time passes
AdvanceTime(d) ==
  /\ now' = now + d
  /\ UNCHANGED <<frameloop, fpsLimit, frameRequested, lastFrameTime, isVisible,
                 sizeVars>>

\* the IntersectionObserver callback: setIsVisible(entry.isIntersecting)
SetVisible(v) ==
  /\ v # isVisible
  /\ isVisible' = v
  /\ UNCHANGED <<frameloop, fpsLimit, frameRequested, lastFrameTime, now,
                 sizeVars>>

\* the ResizeObserver callback of the root canvas
HostResize(w) ==
  /\ w # pendingSize
  /\ pendingSize' = w
  /\ frameRequested' = Invalidated(frameRequested, {Root})
  /\ UNCHANGED <<frameloop, fpsLimit, lastFrameTime, now, isVisible,
                 appliedSize, sizeSnapshot, hitArea, targetSize>>

\* the matchMedia change listener of the root: updatePixelRatio()
ResolutionChange(r) ==
  /\ r # sizeSnapshot[Root].resolution
  /\ sizeSnapshot' = UpdateSnapshotResolution(sizeSnapshot, Root, r)
  /\ hitArea' = NotifiedHitArea(sizeSnapshot')
  /\ targetSize' = NotifiedTarget(sizeSnapshot')
  /\ UNCHANGED <<schedVars, pendingSize, appliedSize>>

\* the width / height props of a PixiTexture change: the store is updated and
\* the RenderTexture is replaced by a new one of the new size
TextureResize(b, w) ==
  /\ Kind(b) = "pixi-texture"
  /\ w # targetSize[b].width
  /\ sizeSnapshot' = [sizeSnapshot EXCEPT ![b] = [width |-> w, resolution |-> 1]]
  /\ targetSize' = [targetSize EXCEPT ![b] = [width |-> w, resolution |-> 1]]
  /\ UNCHANGED <<schedVars, pendingSize, appliedSize, hitArea>>

(***************************************************************************)
(* History.  lastOp is the operation that led to the state: for a tick,    *)
(* whether it rendered, the calls of invalidate() its render made, and the *)
(* flag and the ceiling of the boundary when the tick began.  phase tells  *)
(* of the boundary watched whether it never rendered ("new"), was ticked   *)
(* without rendering before its first render ("missed"), rendered once and *)
(* was not invalidated since ("quiet"), was then ticked without rendering  *)
(* ("idle"), rendered a second time without having been invalidated        *)
(* ("again"), or was invalidated after its first render ("live").          *)
(***************************************************************************)
\* the fps ceiling of b when a tick begins: "none" (no fpsLimit), "first" (no
\* frame signalled yet), "pending" (a frame was signalled less than
\* 1000 / fpsLimit milliseconds ago) or "elapsed"
CeilingState(b) ==
  IF fpsLimit[b] = NoLimit THEN "none"
  ELSE IF lastFrameTime[b] = Undefined THEN "first"
  ELSE IF (now - lastFrameTime[b]) * fpsLimit[b] < UnitsPerSecond THEN "pending"
  ELSE "elapsed"

Op(op, b) ==
  [op |-> op, b |-> b, rendered |-> FALSE, requested |-> FALSE,
   ceiling |-> "none", cb |-> {}]

TickOp(b, cb) ==
  [op |-> "tick", b |-> b, rendered |-> ShouldRender(b),
   requested |-> frameRequested[b], ceiling |-> CeilingState(b), cb |-> cb]

\* the boundaries on which the operation o called invalidate()
InvalidatedBy(o) ==
  CASE o.op = "invalidate" -> {o.b}
    [] o.op = "hostResize" -> {Root}
    [] o.op = "tick" /\ o.rendered -> o.cb \cup ({Parent(o.b)} \cap Boundaries)
    [] OTHER -> {}

PhaseAfterInvalidate(p, bs) ==
  IF watched \in bs /\ p \in {"quiet", "idle"} THEN "live" ELSE p

PhaseAfterTick(p, o) ==
  IF o.b # watched THEN p
  ELSE IF o.rendered
       THEN IF p \in {"new", "missed"} THEN "quiet"
            ELSE IF p \in {"quiet", "idle"} THEN "again" ELSE p
       ELSE IF p = "new" THEN "missed"
            ELSE IF p = "quiet" THEN "idle" ELSE p

PhaseAfter(o) ==
  IF o.op = "tick"
  THEN PhaseAfterInvalidate(PhaseAfterTick(phase, o), InvalidatedBy(o))
  ELSE PhaseAfterInvalidate(phase, InvalidatedBy(o))

\* an operation recorded in lastOp
Logged(o) == lastOp' = o /\ UNCHANGED <<watched, phase, fpsVars, eventVars, auxVars>>

\* an operation recorded in lastOp that leaves the canvas at the width w
LoggedAt(o, w) ==
  /\ lastOp' = o
  /\ clientWidth' = w
  /\ UNCHANGED <<watched, phase, fpsVars, eventVars, uvBoundsTree, builds,
                 call, life, eventBoundaries, rootEvents, bound,
                 subscriberVars, runnerVars, recorderVars>>

\* an operation recorded in phase
Phased(o) ==
  phase' = PhaseAfter(o) /\ UNCHANGED <<lastOp, watched, fpsVars, eventVars, auxVars>>

(***************************************************************************)
(* Event redispatch through nested boundaries.                             *)
(*                                                                         *)
(* The scene of the event model: the root canvas holds the sprite of a     *)
(* ThreeScene S1; S1 holds a mesh carrying a PixiTexture P and a mesh      *)
(* carrying a ThreeRenderTexture R; the 2D scene of P holds the sprite of  *)
(* a ThreeScene S2.  For every host event react-three-fiber calls the      *)
(* compute function of each portal, which calls the compute of the state   *)
(* it was created in (previous) first.  A portal always has a previous     *)
(* state, and the refs read by dispatchEvent are set while P is mounted.   *)
(***************************************************************************)
\* the coordinate that stands for -Infinity: below every coordinate of a scene
NegInfinity == -1
\* MISSED_POINT = new Point(-Infinity, -Infinity)
MISSED_POINT == <<NegInfinity, NegInfinity>>
\* the point argument null of dispatchEvent
Null == <<>>
\* intersection.uv of an intersection that carries no uv
NoUv == <<>>
\* the uv coordinates a raycast reports in the model
Uvs == {<<1, 1>>}
\* raycaster.intersectObject(object): no intersection, or a first intersection
Intersections == {<<>>} \cup {<<[uv |-> u]>> : u \in Uvs \cup {NoUv}}
\* bounds = { width, height } of the PixiTexture
TextureBounds == [width |-> 2, height |-> 2]
\* the results of a 2D hit test: the sprite of the nested scene, another
\* display object, nothing
HitTests == {"sprite", "other", "none"}

\* const [intersection] = intersections; intersection?.uv
UvOf(intersections) ==
  IF intersections = <<>> THEN NoUv ELSE intersections[1].uv

\* mapUvToPixi of bijections.ts with bounds.x and bounds.y absent
MapUvToPixi(uv, bounds) == <<uv[1] * bounds.width, uv[2] * bounds.height>>

\* mapEventToPoint of PixiThreeEventSystem
MapEventToPoint(intersections, bounds) ==
  IF intersections = <<>> THEN MISSED_POINT
  ELSE IF UvOf(intersections) = NoUv THEN MISSED_POINT
  ELSE MapUvToPixi(UvOf(intersections), bounds)

\* computeFn of a ThreeScene in the root canvas: TRUE when it sets its
\* pointer and raycaster, FALSE when it returns false
ThreeSceneRootCompute(rootHit) == rootHit = "sprite"

\* computeFn of a ThreeScene inside a PixiTexture.  Variant that goes on
\* although the enclosing compute returned false:
ThreeSceneNestedCompute_IgnoresStatus(status, object, intersections, hit) ==
  /\ object
  /\ UvOf(intersections) # NoUv
  /\ hit = "sprite"

ThreeSceneNestedCompute(status, object, intersections, hit) ==
  /\ status
  /\ object
  /\ intersections # <<>>
  /\ UvOf(intersections) # NoUv
  /\ hit = "sprite"

\* computeFn of a ThreeRenderTexture
ThreeRenderTextureCompute(status, object, intersections) ==
  /\ status
  /\ object
  /\ intersections # <<>>
  /\ UvOf(intersections) # NoUv

\* computeFn of a PixiTexture: the points it passes to dispatchEvent and the
\* value it leaves in wasOverRef.  Variant that dispatches hits only:
PixiTextureCompute_HitsOnly(over, status, object, intersections, testGuard) ==
  LET uv == UvOf(intersections)
      isOver == status /\ object /\ uv # NoUv /\ testGuard
  IN [calls |-> IF isOver THEN <<MapUvToPixi(uv, TextureBounds)>> ELSE <<>>,
      wasOver |-> isOver]

\* Variant that does not clear wasOverRef after a miss:
PixiTextureCompute_StaysOver(over, status, object, intersections, testGuard) ==
  LET uv == UvOf(intersections)
      isOver == status /\ object /\ uv # NoUv /\ testGuard
  IN [calls |-> IF isOver THEN <<MapUvToPixi(uv, TextureBounds)>>
                ELSE IF over THEN <<Null>> ELSE <<>>,
      wasOver |-> isOver \/ over]

PixiTextureCompute(over, status, object, intersections, testGuard) ==
  IF ~status
  THEN [calls |-> IF over THEN <<Null>> ELSE <<>>, wasOver |-> FALSE]
  ELSE IF ~object
  THEN [calls |-> <<>>, wasOver |-> over]
  ELSE LET uv == UvOf(intersections)
           isOver == uv # NoUv /\ testGuard
           point == IF isOver THEN MapUvToPixi(uv, TextureBounds) ELSE Null
       IN [calls |-> IF isOver \/ over THEN <<point>> ELSE <<>>,
           wasOver |-> isOver]

\* the geometry of one host event: what the hit tests and raycasts of the
\* chain find for it, whether the meshes of P and R are attached, and the
\* answer of P's eventGuard
Geometries ==
  [rootHit : HitTests, attached : BOOLEAN, ray : Intersections,
   guard : BOOLEAN, hit : HitTests, attachedR : BOOLEAN, rayR : Intersections]

(***************************************************************************)
(* PixiSyntheticEventSystem: normalization of host events.                 *)
(*                                                                         *)
(* An event type is the sequence of its parts: "pointerleave" is           *)
(* <<"pointer", "leave">>, "touchendoutside" is <<"touch", "end",          *)
(* "outside">>.  Pressures are counted in tenths.                          *)
(***************************************************************************)
\* const MOUSE_POINTER_ID = 1
MOUSE_POINTER_ID == 1
\* the default pressure 0.5, in tenths
DefaultPressure == 5
\* largest pointerId / touch identifier of a host event
MaxPointerId == 1
\* largest number of changed touch points of a host touch event
MaxTouches == 2

PointerIds == 0 .. MaxPointerId
\* pressures and touch forces of host events: 0, 0.5 and 1
Pressures == {0, DefaultPressure, 10}
Forces == {0, 10}

\* const MOUSE_EVENTS = ["click", "contextmenu", "dblclick"]
MOUSE_EVENTS == {<<"click">>, <<"contextmenu">>, <<"dblclick">>}

\* TOUCH_TO_POINTER[type] || type
TouchToPointer(type) ==
  CASE type = <<"touch", "start">> -> <<"pointer", "down">>
    [] type = <<"touch", "end">> -> <<"pointer", "up">>
    [] type = <<"touch", "end", "outside">> -> <<"pointer", "up", "outside">>
    [] type = <<"touch", "move">> -> <<"pointer", "move">>
    [] type = <<"touch", "cancel">> -> <<"pointer", "cancel">>
    [] OTHER -> type

\* the JavaScript a || b on numbers: b when a is 0
JsOr(a, b) == IF a = 0 THEN b ELSE a

ModifierKeys == {"altKey", "ctrlKey", "metaKey", "shiftKey"}
NoModifiers == [k \in ModifierKeys |-> FALSE]
\* the modifier states of host events: no key, one key, every key
ModifierStates ==
  {NoModifiers, [k \in ModifierKeys |-> TRUE]}
  \cup {[k \in ModifierKeys |-> k = m] : m \in ModifierKeys}

\* the sequences over S of length at most n
SeqsUpTo(S, n) == UNION {[1 .. k -> S] : k \in 0 .. n}

\* the host events: pointer events carry pointerId and pressure, mouse and
\* touch events do not; a touch event carries its changed touch points.
\* target tells whether event.target is the element the system is bound to.
PointerTypes ==
  {<<"pointer", n>> :
     n \in {"down", "up", "move", "over", "out", "enter", "leave", "cancel"}}
MouseTypes ==
  {<<"mouse", n>> :
     n \in {"down", "up", "move", "over", "out", "enter", "leave"}}
TouchTypes == {<<"touch", n>> : n \in {"start", "end", "move", "cancel"}}

HostEvent(type, id, pressure, mods, touches, target) ==
  [type |-> type, pointerId |-> id, pressure |-> pressure, mods |-> mods,
   changedTouches |-> touches, target |-> target]

Touches == [identifier : PointerIds, force : Forces]

\* event.target matters to handlePointerUp only
Targets(type) ==
  IF type[2] \in {"up", "end", "cancel"} THEN {"element", "other"}
  ELSE {"element"}

HostEvents ==
  {HostEvent(x[1], x[2], x[3], x[4], <<>>, x[5]) :
     x \in {y \in PointerTypes \X PointerIds \X Pressures \X ModifierStates
                   \X {"element", "other"} : y[5] \in Targets(y[1])}}
  \cup
  {HostEvent(x[1], Undefined, Undefined, x[2], <<>>, x[3]) :
     x \in {y \in MouseTypes \X ModifierStates \X {"element", "other"} :
              y[3] \in Targets(y[1])}}
  \cup
  {HostEvent(x[1], Undefined, Undefined, x[2], x[3], x[4]) :
     x \in {y \in TouchTypes \X ModifierStates
                   \X SeqsUpTo(Touches, MaxTouches) \X {"element", "other"} :
              y[4] \in Targets(y[1])}}

\* normalizeToPointerData: { ...event, ...touch } is the event with the
\* fields of the touch laid over it.  Variant that pushes one event for a
\* touch event, whatever the number of its changed touches:
NormalizeToPointerData_OnePerEvent(event) ==
  IF platform.touch /\ event.type[1] = "touch"
  THEN <<[event EXCEPT !.pointerId = 0, !.pressure = DefaultPressure]>>
  ELSE <<event>>

\* Variant that loses the modifier keys of a touch event:
NormalizeToPointerData_TouchOnly(event) ==
  IF platform.touch /\ event.type[1] = "touch"
  THEN [i \in 1 .. Len(event.changedTouches) |->
          [event EXCEPT
             !.pointerId = JsOr(event.changedTouches[i].identifier, 0),
             !.pressure = JsOr(event.changedTouches[i].force, DefaultPressure),
             !.mods = NoModifiers]]
  ELSE <<event>>

NormalizeToPointerData(event) ==
  IF platform.touch /\ event.type[1] = "touch"
  THEN [i \in 1 .. Len(event.changedTouches) |->
          [event EXCEPT
             !.pointerId = JsOr(event.changedTouches[i].identifier, 0),
             !.pressure = JsOr(event.changedTouches[i].force, DefaultPressure)]]
  ELSE IF ~platform.mouse \/ (~platform.pointer /\ event.type \in MOUSE_EVENTS)
  THEN <<[event EXCEPT
            !.pointerId = IF @ = Undefined THEN MOUSE_POINTER_ID ELSE @,
            !.pressure = IF @ = Undefined THEN DefaultPressure ELSE @]>>
  ELSE <<event>>

\* the rewriting of federatedEvent.type at the end of bootstrapPointerEvent
RewriteType(type) ==
  LET left == IF type = <<"pointer", "leave">> THEN <<"pointer", "out">>
              ELSE type
      moused == IF left[1] = "mouse" THEN <<"pointer">> \o Tail(left)
                ELSE left
  IN IF moused[1] = "touch" THEN TouchToPointer(moused) ELSE moused

\* bootstrapPointerEvent with transferMouseData: the fields of the
\* federated event; point is what mapEventToPoint writes to its screen
BootstrapPointerEvent(sourceEvent, point) ==
  [type |-> RewriteType(sourceEvent.type),
   pointerId |-> sourceEvent.pointerId,
   pressure |-> sourceEvent.pressure,
   mods |-> sourceEvent.mods,
   screen |-> point]

\* the handler bind() attaches for a host event type
HandlerOf(type) ==
  CASE type[2] \in {"down", "start"} -> "handlePointerDown"
    [] type[2] \in {"up", "end", "cancel"} -> "handlePointerUp"
    [] type[2] = "move" -> "handlePointerMove"
    [] OTHER -> "handlePointerOverOut"

\* handlePointerDown, handlePointerMove, handlePointerUp and
\* handlePointerOverOut: the events handed to eventBoundary.mapEvent, in order
HandlePointer(handler, sourceEvent, point) ==
  LET events == NormalizeToPointerData(sourceEvent)
      outside == handler = "handlePointerUp" /\ sourceEvent.target # "element"
  IN [i \in 1 .. Len(events) |->
        LET rootEvent == BootstrapPointerEvent(events[i], point)
        IN IF outside
           THEN [rootEvent EXCEPT !.type = Append(@, "outside")]
           ELSE rootEvent]

\* dispatch of PixiSyntheticEventSystem, called by dispatchEvent of
\* usePixiEventDispatch: the event is normalized and bootstrapped at the given
\* point, a null point standing for a miss
Dispatch(event, point) ==
  LET events == NormalizeToPointerData(event)
  IN [i \in 1 .. Len(events) |->
        BootstrapPointerEvent(events[i],
                              IF point = Null THEN MISSED_POINT ELSE point)]

\* the platforms: 'ontouchstart' in globalThis, globalThis.PointerEvent,
\* globalThis.MouseEvent
Platforms == [touch : BOOLEAN, pointer : BOOLEAN, mouse : BOOLEAN]

\* a browser sends touch events only where it supports them
Sendable(event) == event.type[1] = "touch" => platform.touch

\* no host event handled yet
NoEvents ==
  /\ platform = [touch |-> TRUE, pointer |-> TRUE, mouse |-> TRUE]
  /\ wasOver = FALSE
  /\ hostEvent = [kind |-> "none"]
  /\ prevOver = FALSE
  /\ calls = <<>>
  /\ resolved = {}
  /\ delivered = <<>>
  /\ nulls = 0
  /\ overBy = {}

(***************************************************************************)
(* UV tracing: the UV-space index of a geometry and the surface trace      *)
(***************************************************************************)
\* grid steps per unit of UV and of local space: a coordinate n stands for
\* n / UvUnit
UvUnit == 2
\* MeshBVH constructions followed per geometry
MaxBuilds == 2

\* an attribute or an index a geometry does not have
Missing == <<>>
\* faceIndex === undefined
NoHint == Undefined

\* vertex k of the rectangle (0,0)-(1,0)-(1,1)-(0,1), with a third coordinate
Corner(k, z) == <<IF k \in {2, 3} THEN UvUnit ELSE 0,
                  IF k \in {3, 4} THEN UvUnit ELSE 0, z>>

\* the meshes traced: the indexed unit quad with and without a normal
\* attribute, the same quad without a uv attribute, and two triangles that
\* share one UV triangle (mirrored UVs), not indexed
Meshes ==
  [quad |-> [uv |-> [k \in 1 .. 4 |-> Corner(k, 0)],
             position |-> [k \in 1 .. 4 |-> Corner(k, 0)],
             normal |-> [k \in 1 .. 4 |-> <<0, 0, 1>>],
             index |-> <<1, 2, 3, 1, 3, 4>>],
   flat |-> [uv |-> [k \in 1 .. 4 |-> Corner(k, 0)],
             position |-> [k \in 1 .. 4 |-> Corner(k, 0)],
             normal |-> Missing,
             index |-> <<1, 2, 3, 1, 3, 4>>],
   bare |-> [uv |-> Missing,
             position |-> [k \in 1 .. 4 |-> Corner(k, 0)],
             normal |-> [k \in 1 .. 4 |-> <<0, 0, 1>>],
             index |-> <<1, 2, 3, 1, 3, 4>>],
   mirrored |-> [uv |-> <<Corner(1, 0), Corner(2, 0), Corner(4, 0),
                          Corner(1, 0), Corner(2, 0), Corner(4, 0)>>,
                 position |-> <<Corner(1, 0), Corner(2, 0), Corner(4, 0),
                                Corner(1, 0), <<0 - UvUnit, 0, 0>>, Corner(4, 0)>>,
                 normal |-> Missing,
                 index |-> Missing]]

MeshNames == DOMAIN Meshes

\* the UVs queried: the grid over the unit square and a point outside it
QueryUvs == ((0 .. UvUnit) \X (0 .. UvUnit)) \cup {<<UvUnit + 1, UvUnit + 1>>}

FaceCount(g) == IF g.index # Missing THEN Len(g.index) \div 3
                ELSE Len(g.position) \div 3

Faces(g) == 0 .. FaceCount(g) - 1

\* i0, i1, i2 of a face (k = 1, 2, 3); vertices are counted from 1
VertexOf(g, faceIndex, k) ==
  IF g.index # Missing THEN g.index[3 * faceIndex + k] ELSE 3 * faceIndex + k

Dot2(a, b) == a[1] * b[1] + a[2] * b[2]

Sub3(a, b) == <<a[1] - b[1], a[2] - b[2], a[3] - b[3]>>

Cross3(a, b) == <<a[2] * b[3] - a[3] * b[2],
                  a[3] * b[1] - a[1] * b[3],
                  a[1] * b[2] - a[2] * b[1]>>

Sign(n) == IF n > 0 THEN 1 ELSE IF n < 0 THEN -1 ELSE 0

\* Triangle.getBarycoord: the weights of a, b and c over the common
\* denominator den; den = 0 for a degenerate triangle
GetBarycoord(p, a, b, c) ==
  LET v0 == Sub3(c, a)
      v1 == Sub3(b, a)
      v2 == Sub3(p, a)
      dot00 == Dot2(v0, v0)
      dot01 == Dot2(v0, v1)
      dot02 == Dot2(v0, v2)
      dot11 == Dot2(v1, v1)
      dot12 == Dot2(v1, v2)
      den == dot00 * dot11 - dot01 * dot01
      u == dot11 * dot02 - dot01 * dot12
      v == dot00 * dot12 - dot01 * dot02
  IN [num |-> <<den - u - v, v, u>>, den |-> den]

\* Triangle.containsPoint: edges and corners count as inside
ContainsPoint(p, a, b, c) ==
  LET bary == GetBarycoord(p, a, b, c)
  IN /\ bary.den # 0
     /\ bary.num[1] >= 0
     /\ bary.num[2] >= 0
     /\ bary.num[1] + bary.num[2] <= bary.den

\* Triangle.getInterpolatedAttribute, over the denominator of the weights
GetInterpolatedAttribute(attr, i0, i1, i2, bary) ==
  [num |-> [k \in 1 .. 3 |-> bary.num[1] * attr[i0][k]
                               + bary.num[2] * attr[i1][k]
                               + bary.num[3] * attr[i2][k]],
   den |-> bary.den]

\* Triangle.getNormal: the unit normal of a face; the faces of Meshes lie in
\* planes parallel to the axes, where the unit normal is the sign vector
GetNormal(a, b, c) ==
  LET n == Cross3(Sub3(c, b), Sub3(a, b))
  IN [num |-> [k \in 1 .. 3 |-> Sign(n[k])], den |-> 1]

\* the rational vector v is the point p / unit, in grid steps
Equals(v, p, unit) == \A k \in 1 .. 3 : v.num[k] * unit = p[k] * v.den

TypeError == [kind |-> "throw", error |-> "TypeError"]

\* traceTriangle without the containment test
TraceTriangle_AnyTriangle(faceIndex, uv, geometry) ==
  IF geometry.uv = Missing THEN TypeError
  ELSE IF faceIndex \notin Faces(geometry) THEN [kind |-> "null"]
  ELSE LET i0 == VertexOf(geometry, faceIndex, 1)
           i1 == VertexOf(geometry, faceIndex, 2)
           i2 == VertexOf(geometry, faceIndex, 3)
           bary == GetBarycoord(<<uv[1], uv[2], 0>>, geometry.uv[i0],
                                geometry.uv[i1], geometry.uv[i2])
       IN [kind |-> "trace",
           trace |-> [position |-> GetInterpolatedAttribute(
                                     geometry.position, i0, i1, i2, bary),
                      normal |-> GetNormal(geometry.position[i0],
                                           geometry.position[i1],
                                           geometry.position[i2]),
                      faceIndex |-> faceIndex,
                      barycentric |-> bary]]

\* traceTriangle: the trace of one face, null when the face does not hold
\* the UV; a geometry without uv attribute is dereferenced all the same
TraceTriangle(faceIndex, uv, geometry) ==
  IF geometry.uv = Missing THEN TypeError
  ELSE IF faceIndex \notin Faces(geometry) THEN [kind |-> "null"]
  ELSE LET i0 == VertexOf(geometry, faceIndex, 1)
           i1 == VertexOf(geometry, faceIndex, 2)
           i2 == VertexOf(geometry, faceIndex, 3)
           a == geometry.uv[i0]
           b == geometry.uv[i1]
           c == geometry.uv[i2]
           uvPoint == <<uv[1], uv[2], 0>>
           bary == GetBarycoord(uvPoint, a, b, c)
       IN IF ~ContainsPoint(uvPoint, a, b, c) THEN [kind |-> "null"]
          ELSE [kind |-> "trace",
                trace |-> [position |-> GetInterpolatedAttribute(
                                          geometry.position, i0, i1, i2, bary),
                           normal |-> IF geometry.normal # Missing
                                      THEN GetInterpolatedAttribute(
                                             geometry.normal, i0, i1, i2, bary)
                                      ELSE GetNormal(geometry.position[i0],
                                                     geometry.position[i1],
                                                     geometry.position[i2]),
                           faceIndex |-> faceIndex,
                           barycentric |-> bary]]

\* getOrCreateUvBvh that builds an index on every call
GetOrCreateUvBvh_AlwaysBuilds(geometry, tree, fresh) ==
  IF geometry.uv = Missing
  THEN [kind |-> "throw", error |-> "Geometry must have UV coordinates"]
  ELSE [kind |-> "return", bvh |-> fresh, built |-> TRUE]

\* getOrCreateUvBvh: tree is geometry.uvBoundsTree (0 when undefined) and
\* fresh the MeshBVH a construction would give
GetOrCreateUvBvh(geometry, tree, fresh) ==
  IF tree # 0 THEN [kind |-> "return", bvh |-> tree, built |-> FALSE]
  ELSE IF geometry.uv = Missing
  THEN [kind |-> "throw", error |-> "Geometry must have UV coordinates"]
  ELSE [kind |-> "return", bvh |-> fresh, built |-> TRUE]

\* traceUvToThreeLocal: the outcome of the call, the value it leaves in
\* geometry.uvBoundsTree and whether it built an index
TraceUvToThreeLocal(uv, geometry, faceIndex, tree, fresh) ==
  IF faceIndex # NoHint
  THEN LET result == TraceTriangle(faceIndex, uv, geometry)
       IN IF result.kind = "throw"
          THEN [kind |-> "throw", error |-> result.error,
                bvh |-> tree, built |-> FALSE]
          ELSE [kind |-> "return",
                results |-> IF result.kind = "trace" THEN {result.trace} ELSE {},
                bvh |-> tree, built |-> FALSE]
  ELSE LET bvh == GetOrCreateUvBvh(geometry, tree, fresh)
       IN IF bvh.kind = "throw"
          THEN [kind |-> "throw", error |-> bvh.error,
                bvh |-> tree, built |-> FALSE]
          ELSE [kind |-> "return",
                results |-> {TraceTriangle(f, uv, geometry).trace :
                               f \in {x \in Faces(geometry) :
                                        TraceTriangle(x, uv, geometry).kind
                                          = "trace"}},
                bvh |-> bvh.bvh, built |-> bvh.built]

\* disposeUvBvh: the value it leaves in geometry.uvBoundsTree
DisposeUvBvh(tree) == 0

\* nothing initialized and nothing mounted yet
NoLife ==
  life = [pixi |-> FALSE, three |-> "none",
          view |-> [b \in Boundaries |-> "none"],
          content |-> [b \in Boundaries |-> "none"],
          target |-> [b \in Boundaries |-> "none"]]

\* the ResizeObserver has nothing left to report: the canvas has the size
\* that was measured at mount
NoStore == clientWidth = pendingSize

\* this._eventBoundaries = {}; this._rootEvents = {}; nothing bound
NoBindings ==
  /\ eventBoundaries = <<>>
  /\ rootEvents = <<>>
  /\ bound = <<>>

\* the components that may subscribe to the store of the root: two
\* components that read the viewport size
SubscriberIds == {"viewport1", "viewport2"}

\* the size held by a component that is not subscribed
NoSize == [width |-> 0, resolution |-> 0]

\* const subscribers = useRef(new Set()): nobody has subscribed
NoSubscribers ==
  /\ subscribers = <<>>
  /\ seen = [i \in SubscriberIds |-> NoSize]
  /\ notified = [invoked |-> {}, late |-> {}]

\* calls of initThree() one ThreeRoot may make
MaxInits == 3

InitIds == 1 .. MaxInits

\* no call, no cleanup function
NoInit == 0

\* ThreeRoot is mounted and its effects have not run: no call of initThree(),
\* useState(null) for cleanupFn
NoRunner ==
  /\ rootMounted = TRUE
  /\ inits = [k \in InitIds |-> "none"]
  /\ runners = {}
  /\ cleanupFn = NoInit
  /\ effectCleanup = NoInit

\* MediaRecorders one use of the hook may create
MaxRecorders == 2

RecorderIds == 1 .. MaxRecorders

\* mediaRecorderRef.current = null
NoRecorder == 0

\* useCanvasRecorder at its first render: useState("inactive"), useState(null),
\* useRef(null)
NoRecording ==
  /\ recordingState = "inactive"
  /\ error = FALSE
  /\ mediaRecorderRef = NoRecorder
  /\ recorders = [r \in RecorderIds |-> "none"]
  /\ tasks = <<>>
  /\ completed = [r \in RecorderIds |-> 0]
  /\ hookMounted = TRUE
  /\ lastCall = "render"

NoMore == NoStore /\ NoBindings /\ NoSubscribers /\ NoRunner /\ NoRecording

\* no index built and no call made yet
NoCalls ==
  /\ uvBoundsTree = [m \in MeshNames |-> 0]
  /\ builds = [m \in MeshNames |-> [total |-> 0, sinceDiscard |-> 0]]
  /\ call = [op |-> "none"]
  /\ NoLife
  /\ NoMore

(***************************************************************************)
(* Initial states                                                          *)
(***************************************************************************)
\* const frameRequested = useRef(true).  Variant starting cleared:
InitialFrameRequested_False == FALSE

InitialFrameRequested == TRUE

InitSchedule ==
  /\ frameRequested = [b \in Boundaries |-> InitialFrameRequested]
  /\ lastFrameTime = [b \in Boundaries |-> Undefined]
  /\ now = 0
  /\ isVisible = TRUE
  /\ lastOp = Op("init", Root)
  /\ phase = "new"

\* the root canvas is measured at mount (width w, device pixel ratio r);
\* appliedSizeRef starts at 1
InitSizes(ws, rs) ==
  \E w \in ws, r \in rs :
    /\ pendingSize = w
    /\ appliedSize = 1
    /\ sizeSnapshot = [b \in Boundaries |->
                         IF b = Root THEN [width |-> w, resolution |-> r]
                         ELSE [width |-> 1, resolution |-> 1]]
    /\ hitArea = w
    /\ targetSize = sizeSnapshot

Modes == [Boundaries -> {"always", "demand"}]

\* at most one boundary of a chain is given an fps ceiling
Ceilings ==
  {l \in [Boundaries -> {NoLimit} \cup FpsLimits] :
     Cardinality({b \in Boundaries : l[b] # NoLimit}) <= 1}

\* the calls of invalidate() the callbacks of one render of b may make
Callbacks(b) == {{}} \cup {{x} : x \in AncestorsOrSelf(b)}

(***************************************************************************)
(* Spec: scheduling under any mix of frameloop modes and fps ceilings,     *)
(* each operation recorded in lastOp                                       *)
(***************************************************************************)
Init ==
  /\ watched = Root
  /\ frameloop \in Modes
  /\ fpsLimit \in Ceilings
  /\ InitSchedule
  /\ InitSizes({1}, {1})
  /\ script = "free"
  /\ recent = <<>>
  /\ NoEvents
  /\ NoCalls

TickAction ==
  \E b \in Boundaries : \E cb \in Callbacks(b) :
    Tick(b, cb) /\ Logged(TickOp(b, cb))

InvalidateAction ==
  \E b \in Boundaries : Invalidate(b) /\ Logged(Op("invalidate", b))

AdvanceTimeAction ==
  /\ now + TickerPeriod <= MaxFrames * TickerPeriod
  /\ AdvanceTime(TickerPeriod)
  /\ Logged(Op("advance", Root))

SetVisibleAction ==
  \E v \in BOOLEAN : SetVisible(v) /\ Logged(Op("visibility", Root))

Next ==
  \/ TickAction
  \/ InvalidateAction
  \/ AdvanceTimeAction
  \/ SetVisibleAction

Spec == Init /\ [][Next]_vars

(***************************************************************************)
(* SpecQuiet: the same system, with the renders of one boundary, any of    *)
(* them, recorded in phase                                                 *)
(***************************************************************************)
InitQuiet ==
  /\ watched \in Boundaries
  /\ frameloop \in Modes
  /\ fpsLimit \in Ceilings
  /\ InitSchedule
  /\ InitSizes({1}, {1})
  /\ script = "free"
  /\ recent = <<>>
  /\ NoEvents
  /\ NoCalls

QuietTick ==
  \E b \in Boundaries : \E cb \in Callbacks(b) :
    Tick(b, cb) /\ Phased(TickOp(b, cb))

QuietInvalidate ==
  \E b \in Boundaries : Invalidate(b) /\ Phased(Op("invalidate", b))

QuietAdvanceTime ==
  /\ now + TickerPeriod <= MaxFrames * TickerPeriod
  /\ AdvanceTime(TickerPeriod)
  /\ Phased(Op("advance", Root))

QuietSetVisible ==
  \E v \in BOOLEAN : SetVisible(v) /\ Phased(Op("visibility", Root))

NextQuiet ==
  \/ QuietTick
  \/ QuietInvalidate
  \/ QuietAdvanceTime
  \/ QuietSetVisible

SpecQuiet == InitQuiet /\ [][NextQuiet]_vars

(***************************************************************************)
(* SpecResize: resizes of the render targets; no fps ceiling, so the       *)
(* clock plays no part                                                     *)
(***************************************************************************)
InitResize ==
  /\ watched = Root
  /\ frameloop \in Modes
  /\ fpsLimit = [b \in Boundaries |-> NoLimit]
  /\ InitSchedule
  /\ InitSizes(Sizes, Resolutions)
  /\ script = "free"
  /\ recent = <<>>
  /\ NoEvents
  /\ NoCalls

ResizeTick ==
  \E b \in Boundaries : \E cb \in {{}, {b}} :
    Tick(b, cb) /\ Logged(TickOp(b, cb))

ResizeInvalidate ==
  \E b \in Boundaries : Invalidate(b) /\ Logged(Op("invalidate", b))

ResizeSetVisible ==
  \E v \in BOOLEAN : SetVisible(v) /\ Logged(Op("visibility", Root))

\* the canvas is laid out at the width w and the ResizeObserver reports it
HostResizeAction ==
  \E w \in Sizes : HostResize(w) /\ LoggedAt(Op("hostResize", Root), w)

ResolutionChangeAction ==
  \E r \in Resolutions :
    ResolutionChange(r) /\ Logged(Op("resolutionChange", Root))

TextureResizeAction ==
  \E b \in Boundaries : \E w \in Sizes :
    TextureResize(b, w) /\ Logged(Op("textureResize", b))

NextResize ==
  \/ ResizeTick
  \/ ResizeInvalidate
  \/ ResizeSetVisible
  \/ HostResizeAction
  \/ ResolutionChangeAction
  \/ TextureResizeAction

SpecResize == InitResize /\ [][NextResize]_vars

(***************************************************************************)
(* SpecFps: the root with fpsLimit = 30, ticked 120 times per second, with *)
(* invalidate() called before every tick.  recent holds the times of the   *)
(* renders of the last second.                                             *)
(***************************************************************************)
FpsScenario == [fpsLimit |-> 30, ticksPerSecond |-> 120]

FpsPeriod == UnitsPerSecond \div FpsScenario.ticksPerSecond

\* the render times of q that lie less than one second before time t
Window(q, t) == SelectSeq(q, LAMBDA x : t - x < UnitsPerSecond)

InitFps ==
  /\ watched = Root
  /\ frameloop \in {m \in Modes : \A b \in Boundaries \ {Root} : m[b] = "demand"}
  /\ fpsLimit = [b \in Boundaries |->
                   IF b = Root THEN FpsScenario.fpsLimit ELSE NoLimit]
  /\ InitSchedule
  /\ InitSizes({1}, {1})
  /\ script = "invalidate"
  /\ recent = <<>>
  /\ NoEvents
  /\ NoCalls

FpsInvalidate ==
  /\ script = "invalidate"
  /\ Invalidate(Root)
  /\ script' = "tick"
  /\ UNCHANGED <<recent, histVars, eventVars, auxVars>>

FpsTick ==
  /\ script = "tick"
  /\ Tick(Root, {})
  /\ script' = "advance"
  /\ recent' = IF TickOp(Root, {}).rendered
               THEN Window(Append(recent, now), now)
               ELSE recent
  /\ UNCHANGED <<histVars, eventVars, auxVars>>

FpsAdvance ==
  /\ script = "advance"
  /\ now + FpsPeriod <= MaxFpsTicks * FpsPeriod
  /\ AdvanceTime(FpsPeriod)
  /\ script' = "invalidate"
  /\ UNCHANGED <<recent, histVars, eventVars, auxVars>>

NextFps ==
  \/ FpsInvalidate
  \/ FpsTick
  \/ FpsAdvance

SpecFps == InitFps /\ [][NextFps]_vars

(***************************************************************************)
(* SpecLive: scheduling without fps ceilings, with every boundary ticked   *)
(* again and again: the ticker runs its callbacks on every frame, the      *)
(* root's while the canvas is visible                                      *)
(***************************************************************************)
InitLive ==
  /\ watched = Root
  /\ frameloop \in Modes
  /\ fpsLimit = [b \in Boundaries |-> NoLimit]
  /\ InitSchedule
  /\ InitSizes({1}, {1})
  /\ script = "free"
  /\ recent = <<>>
  /\ NoEvents
  /\ NoCalls

TickOf(b) ==
  \E cb \in Callbacks(b) : Tick(b, cb) /\ Logged(TickOp(b, cb))

LiveTick == \E b \in Boundaries : TickOf(b)

LiveInvalidate ==
  \E b \in Boundaries : Invalidate(b) /\ Logged(Op("invalidate", b))

LiveSetVisible ==
  \E v \in BOOLEAN : SetVisible(v) /\ Logged(Op("visibility", Root))

NextLive ==
  \/ LiveTick
  \/ LiveInvalidate
  \/ LiveSetVisible

TickerRuns == \A b \in Boundaries : SF_vars(TickOf(b))

SpecLive == InitLive /\ [][NextLive]_vars /\ TickerRuns

(***************************************************************************)
(* SpecEvents: host pointer events traced through the compute chain of     *)
(* the nested boundaries S1, P, S2 and R                                   *)
(***************************************************************************)
\* the schedule at rest: the event specifications do not tick
IdleSchedule ==
  /\ watched = Root
  /\ frameloop = [b \in Boundaries |-> "demand"]
  /\ fpsLimit = [b \in Boundaries |-> NoLimit]
  /\ InitSchedule
  /\ InitSizes({1}, {1})
  /\ script = "free"
  /\ recent = <<>>

InitEvents == IdleSchedule /\ NoEvents /\ NoCalls

\* the pointer moves react-three-fiber raycasts for
ChainEvents ==
  {HostEvent(t, MOUSE_POINTER_ID, DefaultPressure, NoModifiers, <<>>, "element") :
     t \in {<<"pointer", "move">>}}

\* null dispatches to P in a row, counted up to one more than allowed
NullsAfter(n, cs) ==
  IF cs = <<>> THEN n
  ELSE IF cs[1] = Null THEN (IF n < 2 THEN n + 1 ELSE n)
  ELSE 0

\* one host event: every compute function of the chain runs for it, and
\* dispatchEvent delivers what P's computeFn passes on
ChainEvent(e, g) ==
  LET s1 == ThreeSceneRootCompute(g.rootHit)
      p == PixiTextureCompute(wasOver, s1, g.attached, g.ray, g.guard)
      s2 == ThreeSceneNestedCompute(s1, g.attached, g.ray, g.hit)
      r == ThreeRenderTextureCompute(s1, g.attachedR, g.rayR)
      over == s1 /\ g.attached /\ UvOf(g.ray) # NoUv /\ g.guard
  IN /\ hostEvent' = [kind |-> "chain", event |-> e, geometry |-> g]
     /\ overBy' = IF over THEN overBy \cup {e.pointerId}
                  ELSE overBy \ {e.pointerId}
     /\ prevOver' = wasOver
     /\ wasOver' = p.wasOver
     /\ calls' = p.calls
     /\ resolved' = {x \in {"S1", "P", "S2", "R"} :
                       \/ x = "S1" /\ s1
                       \/ x = "P" /\ p.calls # <<>> /\ p.calls[1] # Null
                       \/ x = "S2" /\ s2
                       \/ x = "R" /\ r}
     /\ delivered' = IF p.calls = <<>> THEN <<>> ELSE Dispatch(e, p.calls[1])
     /\ nulls' = NullsAfter(nulls, p.calls)
     /\ UNCHANGED <<platform, schedVars, sizeVars, histVars, fpsVars, auxVars>>

ChainEventAction == \E e \in ChainEvents, g \in Geometries : ChainEvent(e, g)

NextEvents == ChainEventAction

SpecEvents == InitEvents /\ [][NextEvents]_vars

(***************************************************************************)
(* SpecOver: the pointer moves of several pointers, interleaved, traced    *)
(* to the PixiTexture P                                                    *)
(***************************************************************************)
OverEvents ==
  {HostEvent(<<"pointer", "move">>, id, DefaultPressure, NoModifiers, <<>>,
             "element") : id \in PointerIds}

\* the geometries of the events that matter to P: its mesh is attached and
\* nothing lies behind it
OverGeometries ==
  {g \in Geometries :
     g.attached /\ g.hit = "none" /\ ~g.attachedR /\ g.rayR = <<>>}

OverEventAction ==
  \E e \in OverEvents, g \in OverGeometries : ChainEvent(e, g)

NextOver == OverEventAction

SpecOver == InitEvents /\ [][NextOver]_vars

(***************************************************************************)
(* SpecPointer: host mouse, pointer and touch events handled by the        *)
(* handlers bind() attaches                                                *)
(***************************************************************************)
InitPointer ==
  /\ IdleSchedule
  /\ platform \in Platforms
  /\ wasOver = FALSE
  /\ hostEvent = [kind |-> "none"]
  /\ prevOver = FALSE
  /\ calls = <<>>
  /\ resolved = {}
  /\ delivered = <<>>
  /\ nulls = 0
  /\ overBy = {}
  /\ NoCalls

\* the points mapEventToPoint may give
MappedPoints == {MISSED_POINT, <<0, 0>>}

\* the handling of one host event, the first the system is given
PointerEventAction ==
  /\ hostEvent.kind = "none"
  /\ \E e \in HostEvents, point \in MappedPoints :
       /\ Sendable(e)
       /\ hostEvent' = [kind |-> "pointer", event |-> e, point |-> point]
       /\ delivered' = HandlePointer(HandlerOf(e.type), e, point)
  /\ UNCHANGED <<platform, wasOver, prevOver, calls, resolved, nulls, overBy>>
  /\ UNCHANGED <<schedVars, sizeVars, histVars, fpsVars, auxVars>>

NextPointer == PointerEventAction

SpecPointer == InitPointer /\ [][NextPointer]_vars

(***************************************************************************)
(* SpecTrace: surface traces, index lookups and discards on shared meshes  *)
(***************************************************************************)
\* the calls of a behaviour are made on one mesh, any of Meshes
InitTrace ==
  /\ IdleSchedule
  /\ NoEvents
  /\ uvBoundsTree = [m \in MeshNames |-> 0]
  /\ builds = [m \in MeshNames |-> [total |-> 0, sinceDiscard |-> 0]]
  /\ call \in {[op |-> "none", mesh |-> m] : m \in MeshNames}
  /\ NoLife
  /\ NoMore

\* who traces: a direct call of traceUvToThreeLocal, or
\* tracePixiToParentThreeLocal of one of two PixiTextures attached to the
\* mesh, which passes no faceIndex
Callers == {"traceUvToThreeLocal", "PixiTexture1", "PixiTexture2"}

Hints(m, caller) ==
  IF caller = "traceUvToThreeLocal"
  THEN {NoHint} \cup (0 .. FaceCount(Meshes[m]))
  ELSE {NoHint}

Built(m, built) ==
  IF built
  THEN [builds EXCEPT ![m] = [total |-> @.total + 1,
                              sinceDiscard |-> @.sinceDiscard + 1]]
  ELSE builds

TraceCall(m, uv, faceIndex, caller) ==
  LET r == TraceUvToThreeLocal(uv, Meshes[m], faceIndex, uvBoundsTree[m],
                               builds[m].total + 1)
  IN /\ r.built => builds[m].total < MaxBuilds
     /\ uvBoundsTree' = [uvBoundsTree EXCEPT ![m] = r.bvh]
     /\ builds' = Built(m, r.built)
     /\ call' = [op |-> "trace", mesh |-> m, uv |-> uv,
                 faceIndex |-> faceIndex, caller |-> caller,
                 tree |-> uvBoundsTree[m], kind |-> r.kind,
                 error |-> IF r.kind = "throw" THEN r.error ELSE "",
                 results |-> IF r.kind = "return" THEN r.results ELSE {}]
     /\ UNCHANGED <<schedVars, sizeVars, histVars, fpsVars, eventVars, life, moreVars>>

TraceAction ==
  \E uv \in QueryUvs, caller \in Callers :
    \E faceIndex \in Hints(call.mesh, caller) :
      TraceCall(call.mesh, uv, faceIndex, caller)

\* a direct call of getOrCreateUvBvh
LookupAction ==
  LET m == call.mesh IN
    LET r == GetOrCreateUvBvh(Meshes[m], uvBoundsTree[m], builds[m].total + 1)
        ok == r.kind = "return"
    IN /\ (ok /\ r.built) => builds[m].total < MaxBuilds
       /\ uvBoundsTree' = [uvBoundsTree EXCEPT ![m] = IF ok THEN r.bvh ELSE @]
       /\ builds' = Built(m, ok /\ r.built)
       /\ call' = [op |-> "lookup", mesh |-> m, tree |-> uvBoundsTree[m],
                   kind |-> r.kind,
                   error |-> IF ok THEN "" ELSE r.error,
                   bvh |-> IF ok THEN r.bvh ELSE 0]
       /\ UNCHANGED <<schedVars, sizeVars, histVars, fpsVars, eventVars, life, moreVars>>

DisposeAction ==
  LET m == call.mesh IN
    /\ uvBoundsTree' = [uvBoundsTree EXCEPT ![m] = DisposeUvBvh(@)]
    /\ builds' = [builds EXCEPT ![m].sinceDiscard = 0]
    /\ call' = [op |-> "dispose", mesh |-> m, tree |-> uvBoundsTree[m]]
    /\ UNCHANGED <<schedVars, sizeVars, histVars, fpsVars, eventVars, life, moreVars>>

NextTrace ==
  \/ TraceAction
  \/ LookupAction
  \/ DisposeAction

SpecTrace == InitTrace /\ [][NextTrace]_vars

(***************************************************************************)
(* SpecBijection: the coordinate mappings, applied and inverted            *)
(***************************************************************************)
\* the largest width and height of a bounds, a rectangle or a viewport
MaxExtent == 2

\* a number of the mappings: the quotient n / d, d > 0; a division by zero
\* gives Infinity (n > 0, d = 0), -Infinity (n < 0, d = 0) or NaN (0, 0)
Rat(n, d) == [n |-> n, d |-> d]

Whole(n) == Rat(n, 1)

Finite(a) == a.d > 0

FiniteVec(v) == Finite(v[1]) /\ Finite(v[2])

Mul(a, b) == Rat(a.n * b.n, a.d * b.d)

Add(a, b) ==
  IF a.d = 0 /\ b.d = 0
  THEN Rat(IF Sign(a.n) = Sign(b.n) THEN Sign(a.n) ELSE 0, 0)
  ELSE Rat(a.n * b.d + b.n * a.d, a.d * b.d)

Neg(a) == Rat(0 - a.n, a.d)

Sub(a, b) == Add(a, Neg(b))

Div(a, b) ==
  Mul(a, IF b.n > 0 THEN Rat(b.d, b.n)
         ELSE IF b.n < 0 THEN Rat(0 - b.d, 0 - b.n)
         ELSE IF b.d > 0 THEN Rat(1, 0)
         ELSE Rat(0, 0))

\* a <= b and a = b of finite numbers
Le(a, b) == Finite(a) /\ Finite(b) /\ a.n * b.d <= b.n * a.d

Same(a, b) == Le(a, b) /\ Le(b, a)

SameVec(u, v) == Same(u[1], v[1]) /\ Same(u[2], v[2])

\* mapUvToPixi for bounds with an offset (a bounds without x or y is one
\* with x = 0 or y = 0)
MapUvToPixiOffset(uv, bounds) ==
  <<Add(Mul(uv[1], Whole(bounds.width)), Whole(bounds.x)),
    Add(Mul(uv[2], Whole(bounds.height)), Whole(bounds.y))>>

\* mapPixiToUv that forgets the offset of the bounds
MapPixiToUv_NoOffset(point, bounds) ==
  <<Div(point[1], Whole(bounds.width)), Div(point[2], Whole(bounds.height))>>

MapPixiToUv(point, bounds) ==
  <<Div(Sub(point[1], Whole(bounds.x)), Whole(bounds.width)),
    Div(Sub(point[2], Whole(bounds.y)), Whole(bounds.height))>>

\* mapPixiToNdc that does not flip the y axis
MapPixiToNdc_NoFlip(point, bounds) ==
  LET normalizedX == Div(Sub(point[1], Whole(bounds.x)), Whole(bounds.width))
      normalizedY == Div(Sub(point[2], Whole(bounds.y)), Whole(bounds.height))
  IN <<Sub(Mul(normalizedX, Whole(2)), Whole(1)),
       Sub(Mul(normalizedY, Whole(2)), Whole(1))>>

MapPixiToNdc(point, bounds) ==
  LET normalizedX == Div(Sub(point[1], Whole(bounds.x)), Whole(bounds.width))
      normalizedY == Div(Sub(point[2], Whole(bounds.y)), Whole(bounds.height))
  IN <<Sub(Mul(normalizedX, Whole(2)), Whole(1)),
       Neg(Sub(Mul(normalizedY, Whole(2)), Whole(1)))>>

MapNdcToPixi(ndc, bounds) ==
  LET normalizedX == Div(Add(ndc[1], Whole(1)), Whole(2))
      normalizedY == Div(Add(Neg(ndc[2]), Whole(1)), Whole(2))
  IN <<Add(Mul(normalizedX, Whole(bounds.width)), Whole(bounds.x)),
       Add(Mul(normalizedY, Whole(bounds.height)), Whole(bounds.y))>>

MapUvToNdc(uv) ==
  <<Sub(Mul(uv[1], Whole(2)), Whole(1)), Neg(Sub(Mul(uv[2], Whole(2)), Whole(1)))>>

MapNdcToUv(ndc) ==
  <<Div(Add(ndc[1], Whole(1)), Whole(2)), Div(Add(Neg(ndc[2]), Whole(1)), Whole(2))>>

\* rect is the bounding client rectangle: x its left, y its top
MapClientToViewport(client, rect, viewport) ==
  LET normalizedX == Div(Sub(client[1], Whole(rect.x)), Whole(rect.width))
      normalizedY == Div(Sub(client[2], Whole(rect.y)), Whole(rect.height))
  IN <<Mul(normalizedX, Whole(viewport.width)),
       Mul(normalizedY, Whole(viewport.height))>>

MapViewportToClient(viewportPoint, viewport, rect) ==
  LET normalizedX == Div(viewportPoint[1], Whole(viewport.width))
      normalizedY == Div(viewportPoint[2], Whole(viewport.height))
  IN <<Add(Mul(normalizedX, Whole(rect.width)), Whole(rect.x)),
       Add(Mul(normalizedY, Whole(rect.height)), Whole(rect.y))>>

Mappings == {"mapUvToPixi", "mapPixiToUv", "mapPixiToNdc", "mapNdcToPixi",
             "mapUvToNdc", "mapNdcToUv", "mapClientToViewport",
             "mapViewportToClient"}

Inverse(fn) ==
  CASE fn = "mapUvToPixi" -> "mapPixiToUv"
    [] fn = "mapPixiToUv" -> "mapUvToPixi"
    [] fn = "mapPixiToNdc" -> "mapNdcToPixi"
    [] fn = "mapNdcToPixi" -> "mapPixiToNdc"
    [] fn = "mapUvToNdc" -> "mapNdcToUv"
    [] fn = "mapNdcToUv" -> "mapUvToNdc"
    [] fn = "mapClientToViewport" -> "mapViewportToClient"
    [] fn = "mapViewportToClient" -> "mapClientToViewport"

Apply(fn, v, bounds, viewport) ==
  CASE fn = "mapUvToPixi" -> MapUvToPixiOffset(v, bounds)
    [] fn = "mapPixiToUv" -> MapPixiToUv(v, bounds)
    [] fn = "mapPixiToNdc" -> MapPixiToNdc(v, bounds)
    [] fn = "mapNdcToPixi" -> MapNdcToPixi(v, bounds)
    [] fn = "mapUvToNdc" -> MapUvToNdc(v)
    [] fn = "mapNdcToUv" -> MapNdcToUv(v)
    [] fn = "mapClientToViewport" -> MapClientToViewport(v, bounds, viewport)
    [] fn = "mapViewportToClient" -> MapViewportToClient(v, viewport, bounds)

\* the coordinates given to a mapping: halves from -1 to MaxExtent + 1
Coordinates == {Rat(n, 2) : n \in -2 .. 2 * MaxExtent + 2}

\* the bounds and client rectangles given, zero-area ones among them
BoundsGiven ==
  [x : {0, 1}, y : {0}, width : 0 .. MaxExtent, height : {0, MaxExtent}]

\* the viewports given to the client mappings; the other mappings take none
Viewports(fn) ==
  IF fn \in {"mapClientToViewport", "mapViewportToClient"}
  THEN [width : 0 .. MaxExtent, height : {MaxExtent}]
  ELSE {[width |-> 1, height |-> 1]}

InitBijection == IdleSchedule /\ NoEvents /\ NoCalls

\* one call of a mapping
MapAction ==
  /\ call.op = "none"
  /\ \E fn \in Mappings, v \in Coordinates \X Coordinates, bounds \in BoundsGiven :
       \E viewport \in Viewports(fn) :
         call' = [op |-> "map", fn |-> fn, v |-> v, bounds |-> bounds,
                  viewport |-> viewport, kind |-> "return",
                  out |-> Apply(fn, v, bounds, viewport)]
  /\ UNCHANGED <<uvBoundsTree, builds>>
  /\ UNCHANGED <<schedVars, sizeVars, histVars, fpsVars, eventVars, life, moreVars>>

\* the inverse mapping called on the result, with the same bounds
InverseAction ==
  /\ call.op = "map"
  /\ call' = [op |-> "inverse", fn |-> call.fn, v |-> call.v,
              bounds |-> call.bounds, viewport |-> call.viewport,
              kind |-> "return", out |-> call.out,
              back |-> Apply(Inverse(call.fn), call.out, call.bounds,
                             call.viewport)]
  /\ UNCHANGED <<uvBoundsTree, builds>>
  /\ UNCHANGED <<schedVars, sizeVars, histVars, fpsVars, eventVars, life, moreVars>>

NextBijection ==
  \/ MapAction
  \/ InverseAction

SpecBijection == InitBijection /\ [][NextBijection]_vars

(***************************************************************************)
(* SpecHooks: the context hooks, called by components inside and outside   *)
(* the boundaries                                                          *)
(***************************************************************************)
\* where a component that is under no boundary is rendered
Outside == NoParent

Hooks == {"useViewport", "useInvalidate", "useEffectInvalidate",
          "useCanvasTree", "useThreeSceneContext", "usePixiTextureContext"}

\* the kinds of boundary whose provider a hook reads
ProvidedBy(hook) ==
  CASE hook = "useThreeSceneContext" -> {"three-scene"}
    [] hook = "usePixiTextureContext" -> {"pixi-texture"}
    [] OTHER -> {"canvas-view", "three-scene", "pixi-texture"}

\* the component an error names
Component(hook) ==
  CASE hook = "useViewport" -> "<CanvasView />"
    [] hook = "useCanvasTree" -> "<CanvasViewContent />"
    [] hook = "useThreeSceneContext" -> "<ThreeScene />"
    [] hook = "usePixiTextureContext" -> "<PixiTexture />"
    [] OTHER -> ""

\* useContext: the nearest boundary around `where` that provides the context
\* the hook reads, Outside when there is none (the context is null)
UseContext(hook, where) ==
  LET providers == {b \in Boundaries :
                      /\ where # Outside
                      /\ b \in AncestorsOrSelf(where)
                      /\ Kind(b) \in ProvidedBy(hook)}
  IN IF providers = {} THEN Outside
     ELSE CHOOSE b \in providers : \A x \in providers : x <= b

Returned(context, size, noop) ==
  [kind |-> "return", error |-> <<>>, context |-> context, size |-> size,
   noop |-> noop]

\* a hook family in which every hook returns a default without its context
UseHook_Defaults(hook, where) ==
  LET context == UseContext(hook, where)
  IN Returned(context,
              IF hook = "useViewport" /\ context # Outside
              THEN sizeSnapshot[context] ELSE NoSize,
              context = Outside)

\* the outcome of a hook called by a component rendered at `where`
UseHook(hook, where) ==
  LET context == UseContext(hook, where)
  IN IF hook \in {"useInvalidate", "useEffectInvalidate"}
     THEN Returned(context, NoSize, context = Outside)
     ELSE IF context = Outside
     THEN [kind |-> "throw",
           error |-> <<hook, "must be called within", Component(hook)>>,
           context |-> Outside, size |-> NoSize, noop |-> FALSE]
     ELSE Returned(context,
                   IF hook = "useViewport" THEN sizeSnapshot[context]
                   ELSE NoSize,
                   FALSE)

InitHooks ==
  /\ watched = Root
  /\ frameloop = [b \in Boundaries |-> "demand"]
  /\ fpsLimit = [b \in Boundaries |-> NoLimit]
  /\ InitSchedule
  /\ InitSizes(Sizes, Resolutions)
  /\ script = "free"
  /\ recent = <<>>
  /\ NoEvents
  /\ NoCalls

\* a component calls a hook while it renders; the effect of
\* useEffectInvalidate calls the function useInvalidate returned
HookAction ==
  \E hook \in Hooks, where \in Boundaries \cup {Outside} :
    LET r == UseHook(hook, where)
    IN /\ call' = [op |-> "hook", hook |-> hook, where |-> where,
                   kind |-> r.kind, error |-> r.error, context |-> r.context,
                   size |-> r.size, noop |-> r.noop]
       /\ IF hook = "useEffectInvalidate" /\ ~r.noop
          THEN Invalidate(r.context)
          ELSE UNCHANGED <<schedVars, sizeVars>>
       /\ UNCHANGED <<histVars, fpsVars, eventVars, uvBoundsTree, builds, life, moreVars>>

\* the ticker runs a boundary
HookTick ==
  \E b \in Boundaries :
    /\ Tick(b, {})
    /\ UNCHANGED <<histVars, fpsVars, eventVars, auxVars>>

NextHooks ==
  \/ HookAction
  \/ HookTick

SpecHooks == InitHooks /\ [][NextHooks]_vars

(***************************************************************************)
(* SpecMount: GPU initialization, and the mounting, rendering and          *)
(* unmounting of the boundaries                                            *)
(***************************************************************************)
\* the world the content of a boundary is rendered in: the content of a
\* CanvasView and of a PixiTexture goes through a tunnel into the Pixi root,
\* the portal of a three scene into the root createRoot(canvas) gives
HostedBy(b) == IF Kind(b) = "three-scene" THEN "three" ELSE "pixi"

\* the component that creates and destroys the render target of a boundary:
\* CanvasView itself, but the tunnelled content of the other boundaries
OwnsTarget(b) == IF Kind(b) = "canvas-view" THEN "view" ELSE "content"

Children(b) == {c \in Boundaries : Parent(c) = b}

\* the prerender runner may call threeState.advance once initThree has added
\* it; variant: as soon as initThree has started
AdvanceRuns_OnceStarted == life.three # "none"

AdvanceRuns == life.three = "ready"

\* the callbacks of a mounted content run: those of useTick on the ticker of
\* the initialized application, those of useFrame inside threeState.advance
CallbackRuns(b) ==
  /\ life.content[b] = "mounted"
  /\ IF HostedBy(b) = "pixi" THEN life.pixi ELSE AdvanceRuns

\* the root a content is rendered into exists
HostExists(b) ==
  IF HostedBy(b) = "pixi" THEN TRUE ELSE life.three \in {"configure", "ready"}

\* the states of the targets a render of b samples: those of the children
\* whose sprite or material is attached
Sampled(b) ==
  {life.target[c] : c \in {x \in Children(b) : life.view[x] = "mounted"}}

Step(op, b) ==
  [op |-> op, b |-> b, rendered |-> FALSE, target |-> life.target[b],
   sampled |-> {}, pixi |-> life.pixi, three |-> life.three]

Keep == UNCHANGED <<schedVars, sizeVars, histVars, fpsVars, eventVars,
                    uvBoundsTree, builds, moreVars>>

\* Application: app.init() has resolved
ApplicationInit ==
  /\ ~life.pixi
  /\ life' = [life EXCEPT !.pixi = TRUE]
  /\ call' = Step("applicationInit", Root)
  /\ Keep

\* the effect of ThreeRoot: initThree() runs up to `await renderer.init()`
InitThree ==
  /\ life.pixi /\ life.three = "none"
  /\ life' = [life EXCEPT !.three = "init"]
  /\ call' = Step("initThree", Root)
  /\ Keep

\* renderer.init() has resolved: the root is created, configured and rendered
RendererInit ==
  /\ life.three = "init"
  /\ life' = [life EXCEPT !.three = "configure"]
  /\ call' = Step("rendererInit", Root)
  /\ Keep

\* onCreated has resolved the state: the prerender runner is added
OnCreated ==
  /\ life.three = "configure"
  /\ life' = [life EXCEPT !.three = "ready"]
  /\ call' = Step("onCreated", Root)
  /\ Keep

\* the component of a boundary mounts where its parent renders its children
MountView(b) ==
  /\ life.view[b] = "none"
  /\ b # Root => life.content[Parent(b)] = "mounted"
  /\ life' = [life EXCEPT !.view[b] = "mounted",
                          !.target[b] = IF OwnsTarget(b) = "view"
                                        THEN "live" ELSE @]
  /\ call' = Step("mountView", b)
  /\ Keep

\* the root at the other end of the tunnel mounts the content
MountContent(b) ==
  /\ life.view[b] = "mounted" /\ life.content[b] = "none"
  /\ HostExists(b)
  /\ life' = [life EXCEPT !.content[b] = "mounted",
                          !.target[b] = IF OwnsTarget(b) = "content"
                                        THEN "live" ELSE @]
  /\ call' = Step("mountContent", b)
  /\ Keep

\* the ticker or the frame loop runs the render callback of a boundary
MountTick(b) ==
  /\ CallbackRuns(b)
  /\ Tick(b, {})
  /\ call' = [Step("tick", b) EXCEPT !.rendered = ShouldRender(b),
                                    !.sampled = Sampled(b)]
  /\ UNCHANGED <<life, histVars, fpsVars, eventVars, uvBoundsTree, builds, moreVars>>

\* the component of a boundary unmounts, its children gone before it: its
\* effect cleanups run, and its tunnel entry is withdrawn
UnmountView(b) ==
  /\ life.view[b] = "mounted"
  /\ \A c \in Children(b) :
       life.view[c] # "mounted" /\ life.content[c] # "mounted"
  /\ life' = [life EXCEPT !.view[b] = "unmounted",
                          !.target[b] = IF OwnsTarget(b) = "view"
                                        THEN "destroyed" ELSE @]
  /\ call' = Step("unmountView", b)
  /\ Keep

\* the root at the other end of the tunnel unmounts the content: the render
\* callback is removed and the effect cleanups of the content run
UnmountContent(b) ==
  /\ life.view[b] = "unmounted" /\ life.content[b] = "mounted"
  /\ life' = [life EXCEPT !.content[b] = "unmounted",
                          !.target[b] = IF OwnsTarget(b) = "content"
                                        THEN "destroyed" ELSE @]
  /\ call' = Step("unmountContent", b)
  /\ Keep

InitMount ==
  /\ watched = Root
  /\ frameloop \in {[b \in Boundaries |-> m] : m \in {"always", "demand"}}
  /\ fpsLimit = [b \in Boundaries |-> NoLimit]
  /\ InitSchedule
  /\ InitSizes({1}, {1})
  /\ script = "free"
  /\ recent = <<>>
  /\ NoEvents
  /\ NoCalls

NextMount ==
  \/ ApplicationInit
  \/ InitThree
  \/ RendererInit
  \/ OnCreated
  \/ \E b \in Boundaries : MountView(b)
  \/ \E b \in Boundaries : MountContent(b)
  \/ \E b \in Boundaries : MountTick(b)
  \/ \E b \in Boundaries : UnmountView(b)
  \/ \E b \in Boundaries : UnmountContent(b)

SpecMount == InitMount /\ [][NextMount]_vars

(***************************************************************************)
(* SpecStore: the size of the root canvas, laid out by the page, observed  *)
(* by the ResizeObserver and applied at renders, with an fps ceiling or    *)
(* without one                                                             *)
(***************************************************************************)
\* the page lays the canvas out at another size
Layout(w) ==
  /\ w # clientWidth
  /\ clientWidth' = w
  /\ UNCHANGED <<schedVars, sizeVars>>

\* the ref callback of the root's pixiContainer.  It is a new function at
\* every render of CanvasViewContent, so React calls it again at every commit
\* of the component: it stores the size it measures and resizes the hit area
\* and the render target, and does not call notifySubscribers()
ContainerRef ==
  /\ IF clientWidth > 0
     THEN /\ sizeSnapshot' = UpdateSnapshotSize(sizeSnapshot, Root, clientWidth)
          /\ hitArea' = clientWidth
          /\ targetSize' = NotifiedTarget(sizeSnapshot')
     ELSE UNCHANGED <<sizeSnapshot, hitArea, targetSize>>
  /\ UNCHANGED <<schedVars, pendingSize, appliedSize, clientWidth>>

InitStore ==
  /\ watched = Root
  /\ frameloop \in {m \in Modes : \A b \in Boundaries \ {Root} : m[b] = "demand"}
  /\ fpsLimit \in {l \in Ceilings : \A b \in Boundaries \ {Root} : l[b] = NoLimit}
  /\ InitSchedule
  /\ InitSizes(Sizes, {1})
  /\ script = "free"
  /\ recent = <<>>
  /\ NoEvents
  /\ NoCalls

StoreTick == Tick(Root, {}) /\ Logged(TickOp(Root, {}))

StoreInvalidate == Invalidate(Root) /\ Logged(Op("invalidate", Root))

StoreAdvanceTime ==
  /\ now + TickerPeriod <= MaxFrames * TickerPeriod
  /\ AdvanceTime(TickerPeriod)
  /\ Logged(Op("advance", Root))

StoreSetVisible ==
  \E v \in BOOLEAN : SetVisible(v) /\ Logged(Op("visibility", Root))

LayoutAction ==
  \E w \in Sizes : Layout(w) /\ LoggedAt(Op("layout", Root), w)

\* the ResizeObserver reports the size the canvas has now
ObserveAction ==
  HostResize(clientWidth) /\ Logged(Op("hostResize", Root))

ContainerRefAction ==
  ContainerRef /\ LoggedAt(Op("containerRef", Root), clientWidth)

NextStore ==
  \/ StoreTick
  \/ StoreInvalidate
  \/ StoreAdvanceTime
  \/ StoreSetVisible
  \/ LayoutAction
  \/ ObserveAction
  \/ ContainerRefAction

SpecStore == InitStore /\ [][NextStore]_vars

(***************************************************************************)
(* SpecSubscribe: the store of the root and its subscribers, while the     *)
(* canvas is laid out, observed, measured again at a commit, and rendered  *)
(***************************************************************************)
\* the elements of a sequence
Range(q) == {q[i] : i \in DOMAIN q}

\* subscribe(callback): subscribers.current.add(callback)
Subscribed(subs, i) == IF i \in Range(subs) THEN subs ELSE Append(subs, i)

\* the function subscribe returns: subscribers.current.delete(callback)
Unsubscribed(subs, ids) == SelectSeq(subs, LAMBDA x : x \notin ids)

\* subscribers.current.forEach(callback => callback(sizeSnapshot.current)),
\* where the callback c unsubscribes the callbacks kills[c] when it is called:
\* the callbacks invoked, in order, each with whether it had been unsubscribed
\* when it was called (forEach of a Set skips an entry deleted before its
\* visit)
RECURSIVE ForEach(_, _, _)
ForEach(rest, removed, kills) ==
  IF rest = <<>> THEN <<>>
  ELSE IF Head(rest) \in removed THEN ForEach(Tail(rest), removed, kills)
  ELSE <<[id |-> Head(rest), unsubscribed |-> FALSE]>>
       \o ForEach(Tail(rest), removed \cup kills[Head(rest)], kills)

\* notifySubscribers() with the snapshot snap
NotifySubscribers(snap, kills) ==
  LET visits == ForEach(subscribers, {}, kills)
      invoked == {visits[k].id : k \in DOMAIN visits}
  IN /\ notified' = [invoked |-> invoked,
                      late |-> {visits[k].id : k \in {j \in DOMAIN visits :
                                                        visits[j].unsubscribed}}]
     /\ subscribers' =
          Unsubscribed(subscribers, UNION {kills[i] : i \in invoked})
     /\ seen' = [i \in SubscriberIds |->
                   IF i \notin Range(subscribers') THEN NoSize
                   ELSE IF i \in invoked THEN snap ELSE seen[i]]

\* what the callbacks of a notification may unsubscribe: nothing, or one
\* callback c unsubscribes one callback d
Kills ==
  {[i \in SubscriberIds |-> {}]}
  \cup {[i \in SubscriberIds |-> IF i = x[1] THEN {x[2]} ELSE {}] :
          x \in SubscriberIds \X SubscriberIds}

KeepSubscribe ==
  UNCHANGED <<watched, phase, fpsVars, eventVars, uvBoundsTree, builds, call,
              life, eventBoundaries, rootEvents, bound, runnerVars,
              recorderVars>>

InitSubscribe ==
  /\ watched = Root
  /\ frameloop \in {m \in Modes : \A b \in Boundaries \ {Root} : m[b] = "demand"}
  /\ fpsLimit = [b \in Boundaries |-> NoLimit]
  /\ InitSchedule
  /\ InitSizes({1}, {1})
  /\ script = "free"
  /\ recent = <<>>
  /\ NoEvents
  /\ NoCalls

\* a component that reads the viewport size subscribes: it has rendered with
\* the snapshot
SubscribeAction ==
  \E i \in SubscriberIds \ Range(subscribers) :
    /\ subscribers' = Subscribed(subscribers, i)
    /\ seen' = [seen EXCEPT ![i] = sizeSnapshot[Root]]
    /\ lastOp' = Op("subscribe", Root)
    /\ UNCHANGED <<schedVars, sizeVars, clientWidth, notified>>
    /\ KeepSubscribe

UnsubscribeAction ==
  \E i \in Range(subscribers) :
    /\ subscribers' = Unsubscribed(subscribers, {i})
    /\ seen' = [seen EXCEPT ![i] = NoSize]
    /\ lastOp' = Op("unsubscribe", Root)
    /\ UNCHANGED <<schedVars, sizeVars, clientWidth, notified>>
    /\ KeepSubscribe

\* the tick of the root: it notifies the subscribers when it applies a size
SubscribeTick ==
  /\ Tick(Root, {})
  /\ lastOp' = TickOp(Root, {})
  /\ IF ShouldRender(Root) /\ pendingSize # appliedSize
     THEN \E kills \in Kills : NotifySubscribers(sizeSnapshot'[Root], kills)
     ELSE UNCHANGED subscriberVars
  /\ UNCHANGED clientWidth
  /\ KeepSubscribe

\* updatePixelRatio(): updateSnapshot({ resolution }); notifySubscribers()
SubscribeResolution ==
  \E r \in Resolutions :
    /\ ResolutionChange(r)
    /\ lastOp' = Op("resolutionChange", Root)
    /\ \E kills \in Kills : NotifySubscribers(sizeSnapshot'[Root], kills)
    /\ UNCHANGED clientWidth
    /\ KeepSubscribe

NextSubscribe ==
  \/ SubscribeAction
  \/ UnsubscribeAction
  \/ SubscribeTick
  \/ SubscribeResolution
  \/ LayoutAction
  \/ ObserveAction
  \/ ContainerRefAction

SpecSubscribe == InitSubscribe /\ [][NextSubscribe]_vars

(***************************************************************************)
(* SpecBind: the named registries of the event system, bind() and the      *)
(* handlers it returns                                                     *)
(***************************************************************************)
\* names an application may give to event boundaries
MaxNames == 2
BoundaryNames == {<<"name", i>> : i \in 1 .. MaxNames}
\* keys that every object inherits from Object.prototype
ObjectPrototype == {<<"constructor">>}
Names == BoundaryNames \cup ObjectPrototype
\* the member of Object.prototype an inherited key leads to
InheritedMember(key) == <<"Object.prototype", key, 0>>

\* key in target
In(key, target) == key \in DOMAIN target \/ key \in ObjectPrototype

\* the objects alive: the boundaries and root events held by the registries
\* and by the handlers bound last
Used ==
  {eventBoundaries[n] : n \in DOMAIN eventBoundaries}
  \cup {rootEvents[n].id : n \in DOMAIN rootEvents}
  \cup {rootEvents[n].pointerEvent : n \in DOMAIN rootEvents}
  \cup {bound[i].eventBoundary : i \in DOMAIN bound}
  \cup {bound[i].rootEvents.id : i \in DOMAIN bound}

\* new EventBoundary(), { pointerEvent: .., wheelEvent: .. }: an object apart
\* from the objects used.  An object is told by its class, the name it was
\* made for, and a number that tells it from the objects of that class made
\* for the name before
NewObject(class, key, used) ==
  <<class, key,
    CHOOSE i \in 1 .. (Cardinality(used) + 1) :
      /\ <<class, key, i>> \notin used
      /\ \A j \in 1 .. (i - 1) : <<class, key, j>> \in used>>

\* { pointerEvent: new FederatedPointerEvent(boundary),
\*   wheelEvent: new FederatedWheelEvent(boundary) }
PixiRootEvents(id, boundary) ==
  [id |-> id, pointerEvent |-> boundary, wheelEvent |-> boundary]

\* what a registry of root events yields for an inherited key
InheritedEvents(key) == PixiRootEvents(InheritedMember(key), <<>>)

\* the get trap of eventBoundaries: the registries after the lookup of key
\* and the object it returns
EventBoundariesGet(key, boundaries, events, used) ==
  IF ~In(key, boundaries)
  THEN LET b == NewObject("EventBoundary", key, used)
           e == NewObject("PixiRootEvents", key, used)
       IN [boundaries |-> (key :> b) @@ boundaries,
           events |-> (key :> PixiRootEvents(e, b)) @@ events,
           used |-> used \cup {b, e},
           out |-> b]
  ELSE [boundaries |-> boundaries, events |-> events, used |-> used,
        out |-> IF key \in DOMAIN boundaries THEN boundaries[key]
                ELSE InheritedMember(key)]

\* the get trap of rootEvents.  Variant that leaves the boundary it creates
\* out of _eventBoundaries:
RootEventsGet_Unpaired(key, boundaries, events, used) ==
  IF ~In(key, events)
  THEN LET b == NewObject("EventBoundary", key, used)
           e == NewObject("PixiRootEvents", key, used)
       IN [boundaries |-> boundaries,
           events |-> (key :> PixiRootEvents(e, b)) @@ events,
           used |-> used \cup {b, e},
           out |-> PixiRootEvents(e, b)]
  ELSE [boundaries |-> boundaries, events |-> events, used |-> used,
        out |-> IF key \in DOMAIN events THEN events[key] ELSE InheritedEvents(key)]

RootEventsGet(key, boundaries, events, used) ==
  IF ~In(key, events)
  THEN LET b == NewObject("EventBoundary", key, used)
           e == NewObject("PixiRootEvents", key, used)
       IN [boundaries |-> (key :> b) @@ boundaries,
           events |-> (key :> PixiRootEvents(e, b)) @@ events,
           used |-> used \cup {b, e},
           out |-> PixiRootEvents(e, b)]
  ELSE [boundaries |-> boundaries, events |-> events, used |-> used,
        out |-> IF key \in DOMAIN events THEN events[key] ELSE InheritedEvents(key)]

\* an option without eventBoundary, or a bare container ref: bindFactory gives
\* it a new EventBoundary()
Unnamed == <<>>

\* the guards of the options: none, one function for every event, or an
\* object holding a function for some handler keys
Guards ==
  {[kind |-> "none", keys |-> {}], [kind |-> "function", keys |-> {}],
   [kind |-> "keyed", keys |-> {"onWheel"}]}

\* the options of bind(): container tells whether container.current is set.
\* The guard of a container that is not set is never asked.
Options ==
  {o \in [container : BOOLEAN, eventBoundary : BoundaryNames \cup {Unnamed},
          guard : Guards] : ~o.container => o.guard.kind = "none"}

\* the arguments of bind(): one option, or two options with function guards
Bindings ==
  {<<o>> : o \in Options}
  \cup {<<x[1], x[2]>> :
          x \in {y \in Options \X Options :
                   \A i \in 1 .. 2 : y[i].container /\ y[i].guard.kind = "function"}}

\* the objects held by registries
Held(boundaries, events) ==
  {boundaries[n] : n \in DOMAIN boundaries}
  \cup {events[n].id : n \in DOMAIN events}
  \cup {events[n].pointerEvent : n \in DOMAIN events}

\* the eventBoundaries and rootEvents bindFactory resolves for its options,
\* and the registries after it
RECURSIVE Resolve(_, _, _, _)
Resolve(opts, boundaries, events, used) ==
  IF opts = <<>>
  THEN [boundaries |-> boundaries, events |-> events, bound |-> <<>>]
  ELSE LET o == Head(opts)
           b == NewObject("EventBoundary", Unnamed, used)
           e == NewObject("PixiRootEvents", Unnamed, used)
           g == EventBoundariesGet(o.eventBoundary, boundaries, events, used)
           h == RootEventsGet(o.eventBoundary, g.boundaries, g.events, g.used)
           r == IF o.eventBoundary = Unnamed
                THEN [boundaries |-> boundaries, events |-> events,
                      used |-> used \cup {b, e}, eventBoundary |-> b,
                      rootEvents |-> PixiRootEvents(e, b)]
                ELSE [boundaries |-> h.boundaries, events |-> h.events,
                      used |-> h.used, eventBoundary |-> g.out,
                      rootEvents |-> h.out]
           rest == Resolve(Tail(opts), r.boundaries, r.events, r.used)
       IN [boundaries |-> rest.boundaries, events |-> rest.events,
           bound |-> <<[container |-> o.container, guard |-> o.guard,
                        eventBoundary |-> r.eventBoundary,
                        rootEvents |-> r.rootEvents]>> \o rest.bound]

\* the keys bind() hands to bindFactory, each with its handler
BoundKeys ==
  [onPointerUp |-> "handlePointerUp", onPointerDown |-> "handlePointerDown",
   onPointerOver |-> "handlePointerOverOut",
   onPointerOut |-> "handlePointerOverOut",
   onPointerEnter |-> "handlePointerOverOut",
   onPointerLeave |-> "handlePointerOverOut",
   onPointerMove |-> "handlePointerMove",
   onPointerCancel |-> "handlePointerUp", onWheel |-> "handleWheel"]

\* testGuard(eventName, event, idx), where answer is what the guard function
\* asked returns
TestGuard(guard, eventName, answer) ==
  IF guard.kind = "none" THEN TRUE
  ELSE IF guard.kind = "function" THEN answer
  ELSE IF eventName \notin guard.keys THEN TRUE
  ELSE answer

\* const eventToHandle = testResult ? event : event
EventToHandle(testResult, event) == IF testResult THEN event ELSE event

\* key === "handleWheel" ? "wheelEvent" : "pointerEvent"
RootEventFor(key) == IF key = "handleWheel" THEN "wheelEvent" ELSE "pointerEvent"

\* the handler bindFactory stores under key, called with event: what it
\* passes to this[handler] for each container that is set
Handler(key, event, answers) ==
  LET pass(idx) ==
        LET testResult == TestGuard(bound[idx].guard, key, answers[idx])
            eventToHandle == EventToHandle(testResult, event)
        IN [idx |-> idx, testResult |-> testResult,
            handler |-> BoundKeys[key],
            point |-> MapEventToPoint(eventToHandle.intersections,
                                      TextureBounds),
            eventBoundary |-> bound[idx].eventBoundary,
            rootEvent |-> RootEventFor(key),
            manager |-> bound[idx].rootEvents[RootEventFor(key)]]
  IN SelectSeq([idx \in 1 .. Len(bound) |-> pass(idx)],
               LAMBDA d : bound[d.idx].container)

KeepBind ==
  UNCHANGED <<schedVars, sizeVars, histVars, fpsVars, eventVars, uvBoundsTree,
              builds, life, clientWidth, subscriberVars, runnerVars,
              recorderVars>>

\* system.eventBoundaries[key]
LookupBoundary(key) ==
  LET r == EventBoundariesGet(key, eventBoundaries, rootEvents, Used)
  IN /\ eventBoundaries' = r.boundaries
     /\ rootEvents' = r.events
     /\ call' = [op |-> "eventBoundaries", key |-> key, out |-> r.out]
     /\ UNCHANGED bound
     /\ KeepBind

\* system.rootEvents[key]
LookupRootEvents(key) ==
  LET r == RootEventsGet(key, eventBoundaries, rootEvents, Used)
  IN /\ eventBoundaries' = r.boundaries
     /\ rootEvents' = r.events
     /\ call' = [op |-> "rootEvents", key |-> key, out |-> r.out]
     /\ UNCHANGED bound
     /\ KeepBind

\* system.bind(domElement, options)
Bind(opts) ==
  LET r == Resolve(opts, eventBoundaries, rootEvents,
                   Held(eventBoundaries, rootEvents))
  IN /\ eventBoundaries' = r.boundaries
     /\ rootEvents' = r.events
     /\ bound' = r.bound
     /\ call' = [op |-> "bind", options |-> opts]
     /\ KeepBind

\* a handler returned by bind() is called with an event
Handle(key, event, answers) ==
  /\ bound # <<>>
  /\ call' = [op |-> "handle", key |-> key, event |-> event,
              deliveries |-> Handler(key, event, answers)]
  /\ UNCHANGED <<eventBoundaries, rootEvents, bound>>
  /\ KeepBind

\* the events handed to the handlers: the raycast found nothing, or a point
\* of the mesh
BoundEvents == {[intersections |-> x] : x \in {<<>>} \cup {<<[uv |-> u]>> : u \in Uvs}}

\* the handlers called: one key for each handler of the event system
CalledKeys ==
  {"onPointerDown", "onPointerUp", "onPointerOver", "onPointerMove", "onWheel"}

InitBind == IdleSchedule /\ NoEvents /\ NoCalls

LookupBoundaryAction == \E key \in Names : LookupBoundary(key)

LookupRootEventsAction == \E key \in Names : LookupRootEvents(key)

BindAction == \E opts \in Bindings : Bind(opts)

HandleAction ==
  \E key \in CalledKeys, event \in BoundEvents :
    \E answers \in [DOMAIN bound -> BOOLEAN] : Handle(key, event, answers)

NextBind ==
  \/ LookupBoundaryAction
  \/ LookupRootEventsAction
  \/ BindAction
  \/ HandleAction

SpecBind == InitBind /\ [][NextBind]_vars

(***************************************************************************)
(* Properties of the render schedule                                       *)
(***************************************************************************)
LastTick == lastOp.op = "tick"

\* C1 (as stated): after invalidate() the flag of the boundary is set; a tick
\* of a demand-mode child whose flag is set renders the child and leaves the
\* flag of its parent set; a tick of the root whose flag is set renders the
\* root and clears the root's flag.
C1_Original ==
  /\ lastOp.op = "invalidate" => frameRequested[lastOp.b]
  /\ (LastTick /\ lastOp.b # Root /\ frameloop[lastOp.b] = "demand"
        /\ lastOp.requested)
       => lastOp.rendered /\ frameRequested[Parent(lastOp.b)]
  /\ (LastTick /\ lastOp.b = Root /\ lastOp.requested)
       => lastOp.rendered /\ ~frameRequested[Root]

\* C1 (amended): the same, for ticks that are not postponed by the fps
\* ceiling of the ticked boundary.
C1_Amended ==
  /\ lastOp.op = "invalidate" => frameRequested[lastOp.b]
  /\ (LastTick /\ lastOp.b # Root /\ frameloop[lastOp.b] = "demand"
        /\ lastOp.requested /\ lastOp.ceiling # "pending")
       => lastOp.rendered /\ frameRequested[Parent(lastOp.b)]
  /\ (LastTick /\ lastOp.b = Root /\ lastOp.requested
        /\ lastOp.ceiling # "pending")
       => lastOp.rendered /\ ~frameRequested[Root]

\* a demand-mode child of a demand-mode root has just rendered on request and
\* has flagged the root
C1_Witness ==
  /\ LastTick /\ lastOp.b # Root /\ lastOp.rendered /\ lastOp.requested
  /\ frameloop[lastOp.b] = "demand"
  /\ frameloop[Root] = "demand"
  /\ frameRequested[Root]

\* C2: a demand-mode tick renders only if the flag was set and the fps ceiling
\* was absent or elapsed; after the render the flag is cleared and
\* signalFrame() has run (lastFrameTime stamped under a ceiling, parent
\* flagged).
C2_DemandGate ==
  (LastTick /\ frameloop[lastOp.b] = "demand" /\ lastOp.rendered) =>
    /\ lastOp.requested
    /\ lastOp.ceiling # "pending"
    /\ ~frameRequested[lastOp.b]
    /\ fpsLimit[lastOp.b] # NoLimit => lastFrameTime[lastOp.b] = now
    /\ lastOp.b # Root => frameRequested[Parent(lastOp.b)]

\* a demand-mode boundary has rendered after its fps ceiling elapsed
C2_Witness ==
  /\ LastTick /\ lastOp.rendered
  /\ frameloop[lastOp.b] = "demand"
  /\ lastOp.ceiling = "elapsed"

\* C3: invalidate() is idempotent, and a request is not lost: once
\* invalidate() was called on a demand-mode boundary, from outside or from a
\* callback of a render, the flag of that boundary is set.
C3_NeverLost ==
  /\ \A b \in Boundaries :
       Invalidated(Invalidated(frameRequested, {b}), {b})
         = Invalidated(frameRequested, {b})
  /\ lastOp.op = "invalidate" /\ frameloop[lastOp.b] = "demand"
       => frameRequested[lastOp.b]
  /\ LastTick =>
       \A x \in lastOp.cb : frameloop[x] = "demand" => frameRequested[x]

\* C4: a boundary that has not rendered yet has its flag set, and no tick
\* passes over it without rendering it (for the boundary watched, which is
\* any boundary).
C4_FirstTickRenders ==
  /\ phase = "new" => frameRequested[watched]
  /\ phase # "missed"

\* a demand-mode boundary with an fps ceiling has rendered its first frame
C4_Witness ==
  /\ phase = "quiet"
  /\ frameloop[watched] = "demand"
  /\ fpsLimit[watched] # NoLimit

\* C5: a demand-mode boundary that was not invalidated since its first render
\* (no invalidate() call on it, no render of its child) does not render a
\* second time, however many ticks follow.
C5_NoOpUnderDemand == frameloop[watched] = "demand" => phase # "again"

\* a demand-mode boundary was ticked after its first render and did not render
C5_Witness == frameloop[watched] = "demand" /\ phase = "idle"

\* C6: every tick of a boundary in always mode renders it, whatever its flag,
\* and signalFrame() runs in the same tick: the flag is cleared, lastFrameTime
\* stamped under a ceiling, and the parent flagged.
C6_AlwaysRenders ==
  (LastTick /\ frameloop[lastOp.b] = "always") =>
    /\ lastOp.rendered
    /\ ~frameRequested[lastOp.b]
    /\ fpsLimit[lastOp.b] # NoLimit => lastFrameTime[lastOp.b] = now
    /\ lastOp.b # Root => frameRequested[Parent(lastOp.b)]

\* an always-mode child has rendered on a tick that found its flag cleared
C6_Witness ==
  /\ LastTick /\ lastOp.rendered /\ ~lastOp.requested
  /\ frameloop[lastOp.b] = "always"
  /\ lastOp.b # Root

\* C7: a tick in which the boundary does not render leaves the flag of its
\* parent (and every other flag) unchanged.
C7_NoRenderNoPropagation ==
  [][(lastOp'.op = "tick" /\ ~lastOp'.rendered)
       => frameRequested' = frameRequested]_vars

\* a child was ticked without rendering while the flag of its parent is cleared
C7_Witness ==
  /\ LastTick /\ ~lastOp.rendered
  /\ lastOp.b # Root
  /\ ~frameRequested[Parent(lastOp.b)]

\* C8 (as stated): with fpsLimit = 30, 120 ticks per second and invalidate()
\* before every tick, no more than 30 + 1 renders fall in any second.
C8_Original == Len(recent) <= FpsScenario.fpsLimit + 1

\* C8 (amended): the same, for a boundary in demand mode.
C8_Amended ==
  frameloop[Root] = "demand" => Len(recent) <= FpsScenario.fpsLimit + 1

\* a demand-mode boundary has rendered 30 times within one second
C8_Witness ==
  /\ frameloop[Root] = "demand"
  /\ Len(recent) = FpsScenario.fpsLimit
  /\ now > UnitsPerSecond

\* C9: no boundary renders while the canvas is not visible.
C9_HiddenNeverRenders == (LastTick /\ lastOp.rendered) => isVisible

\* C10: every resize of a render target (host size, resolution, texture
\* width / height) leaves the flag of its boundary set, and the stored bounds
\* of the boundary agree with the size of its target.
C10_ResizeInvalidates ==
  /\ lastOp.op \in {"hostResize", "resolutionChange", "textureResize"}
       => frameRequested[lastOp.b]
  /\ \A b \in Boundaries : sizeSnapshot[b] = targetSize[b]
  /\ hitArea = sizeSnapshot[Root].width

\* C11: invalidate() called from a render callback of a boundary, on the
\* boundary itself or on an ancestor, leaves that boundary due to render on
\* its next tick: in demand mode its flag is set when the tick ends.
C11_ReentrantConsumedNextTick ==
  (LastTick /\ lastOp.rendered) =>
    \A x \in lastOp.cb : frameloop[x] = "always" \/ frameRequested[x]

Rendered(b) == LastTick /\ lastOp.b = b /\ lastOp.rendered

\* C12: while the canvas keeps becoming visible, every render of an inner
\* boundary is followed by a render of its parent, hence, step by step, of
\* every ancestor up to the root, whatever the frameloop modes.
C12_AncestorsRenderAgain ==
  ([]<>isVisible) =>
    \A c \in Boundaries \ {Root} : Rendered(c) ~> Rendered(Parent(c))

\* in a chain of demand-mode boundaries the root has rendered on request
\* after the boundaries below it
C12_Witness ==
  /\ Rendered(Root) /\ lastOp.requested
  /\ \A b \in Boundaries : frameloop[b] = "demand" /\ ~frameRequested[b]

ChainHandled == hostEvent.kind = "chain"

\* the event handled last resolved to P: its computeFn dispatched a point
ReachedP == ChainHandled /\ "P" \in resolved

\* the raycast against the mesh of P found no intersection, or one without uv
RayMissed == ChainHandled /\ UvOf(hostEvent.geometry.ray) = NoUv

\* the pointer is not on the attached mesh of P: the enclosing scene was
\* missed, or the raycast against the mesh missed
MovedOff ==
  /\ ChainHandled
  /\ hostEvent.geometry.attached
  /\ (hostEvent.geometry.rootHit # "sprite" \/ RayMissed)

\* the events delivered for the event handled last are one event at point
DeliveredAt(point) == Len(delivered) = 1 /\ delivered[1].screen = point

\* C14: a pointer move that hits P delivers one event at the hit point to
\* the 2D scene of P (its over); when P was over and the next move is off P,
\* one event at the missed point (its out/leave) is delivered although the
\* move does not resolve to P, and never a second one before the next hit.
C14_OverThenOneOut ==
  /\ ReachedP =>
       DeliveredAt(MapUvToPixi(UvOf(hostEvent.geometry.ray), TextureBounds))
  /\ (prevOver /\ MovedOff) => (DeliveredAt(MISSED_POINT) /\ nulls = 1)
  /\ (~prevOver /\ MovedOff) => delivered = <<>>

C14_Witness ==
  /\ prevOver
  /\ MovedOff
  /\ hostEvent.geometry.rootHit = "none"
  /\ DeliveredAt(MISSED_POINT)
  /\ resolved = {}

\* C15: when P was over at the previous event and the current event does
\* not reach it, for whatever reason, computeFn dispatches a null point for
\* the current event.
C15_MissedSynthesized ==
  (ChainHandled /\ prevOver /\ ~ReachedP) => calls = <<Null>>

\* C16: a raycast without intersection or without uv is mapped to the missed
\* sentinel and any other to a point of the texture; on such a miss P is
\* given a null point if it was over and nothing otherwise, so that null
\* points are never dispatched twice in a row.
C16_MissedOnce ==
  /\ ChainHandled =>
       (MapEventToPoint(hostEvent.geometry.ray, TextureBounds) = MISSED_POINT
          <=> RayMissed)
  /\ (RayMissed /\ hostEvent.geometry.attached) =>
       calls = IF prevOver THEN <<Null>> ELSE <<>>
  /\ nulls <= 1

C16_Witness ==
  /\ RayMissed
  /\ "S1" \in resolved
  /\ hostEvent.geometry.attached
  /\ ~prevOver
  /\ nulls = 1
  /\ calls = <<>>

PointerHandled == hostEvent.kind = "pointer"

IsTouch(e) == e.type[1] = "touch"

\* the pointer id and the pressure the host event has for its i-th delivered
\* event: those of the i-th changed touch (identifier, force) for a touch
\* event, its own otherwise; Undefined for a mouse event, which has neither
HostPointerId(e, i) ==
  IF IsTouch(e) THEN e.changedTouches[i].identifier ELSE e.pointerId

HostPressure(e, i) ==
  IF IsTouch(e) THEN e.changedTouches[i].force ELSE e.pressure

\* C18 (as stated): every delivered event has the modifier keys of the host
\* event, and its pointer id and its pressure wherever the host event has
\* them.
C18_Original ==
  PointerHandled =>
    \A i \in 1 .. Len(delivered) :
      /\ delivered[i].mods = hostEvent.event.mods
      /\ HostPointerId(hostEvent.event, i) # Undefined =>
           delivered[i].pointerId = HostPointerId(hostEvent.event, i)
      /\ HostPressure(hostEvent.event, i) # Undefined =>
           delivered[i].pressure = HostPressure(hostEvent.event, i)

\* C18 (amended): the same, except that a changed touch of force 0 is
\* delivered with the default pressure 0.5.
C18_Amended ==
  PointerHandled =>
    \A i \in 1 .. Len(delivered) :
      /\ delivered[i].mods = hostEvent.event.mods
      /\ HostPointerId(hostEvent.event, i) # Undefined =>
           delivered[i].pointerId = HostPointerId(hostEvent.event, i)
      /\ HostPressure(hostEvent.event, i) # Undefined =>
           delivered[i].pressure =
             IF IsTouch(hostEvent.event) /\ HostPressure(hostEvent.event, i) = 0
             THEN DefaultPressure
             ELSE HostPressure(hostEvent.event, i)

C18_Witness ==
  /\ PointerHandled
  /\ IsTouch(hostEvent.event)
  /\ hostEvent.event.mods["altKey"]
  /\ ~hostEvent.event.mods["shiftKey"]
  /\ Len(delivered) = 2
  /\ hostEvent.event.changedTouches[1].force = 0
  /\ delivered[1].pressure = DefaultPressure
  /\ delivered[2].pressure = 10
  /\ delivered[2].pointerId = 1
  /\ delivered[2].mods = hostEvent.event.mods

\* C19: a touch event is delivered as one event for each of its changed
\* touches, in their order and each with the id of its touch; a mouse or
\* pointer event is delivered as exactly one event.
C19_OnePerChangedTouch ==
  PointerHandled =>
    IF IsTouch(hostEvent.event)
    THEN /\ Len(delivered) = Len(hostEvent.event.changedTouches)
         /\ \A i \in 1 .. Len(delivered) :
              delivered[i].pointerId =
                hostEvent.event.changedTouches[i].identifier
    ELSE Len(delivered) = 1

C19_Witness ==
  /\ PointerHandled
  /\ IsTouch(hostEvent.event)
  /\ Len(hostEvent.event.changedTouches) = 2
  /\ Len(delivered) = 2
  /\ delivered[1].pointerId = 1
  /\ delivered[2].pointerId = 0

\* the pointer type that corresponds to a host type: the same event name
\* with the prefix pointer, the touch names start and end being the pointer
\* names down and up, and leave being delivered as out
CanonicalName(n) ==
  CASE n = "start" -> "down"
    [] n = "end" -> "up"
    [] n = "leave" -> "out"
    [] OTHER -> n

\* C20: every delivered event has a pointer type, the one that corresponds
\* to the type of the host event, and a leave is delivered as pointerout:
\* no delivered type is pointerleave, a mouse type or a touch type.
C20_CanonicalType ==
  PointerHandled =>
    \A i \in 1 .. Len(delivered) :
      /\ delivered[i].type[1] = "pointer"
      /\ delivered[i].type[2] = CanonicalName(hostEvent.event.type[2])
      /\ delivered[i].type[2] # "leave"

(***************************************************************************)
(* Properties of the surface trace                                         *)
(***************************************************************************)
Traced == call.op = "trace"

LacksUv == Meshes[call.mesh].uv = Missing

\* C21: a trace on a geometry without uv attribute throws the error that
\* names the missing attribute, with and without a faceIndex, and never
\* returns.
C21_FailsFast ==
  (Traced /\ LacksUv) =>
    call.kind = "throw" /\ call.error = "Geometry must have UV coordinates"

\* an index lookup: a call of getOrCreateUvBvh, or a trace without faceIndex
LookedUp ==
  \/ call.op = "lookup" /\ call.kind = "return"
  \/ Traced /\ call.faceIndex = NoHint /\ call.kind = "return"

\* C22: no index exists before the first lookup; a lookup on a geometry that
\* holds an index returns and keeps that index, whoever asks; between two
\* discards at most one index is built; disposeUvBvh leaves the geometry
\* without index, and the next lookup builds a new one.
C22_BuiltOncePerDiscard ==
  /\ \A m \in MeshNames :
       /\ builds[m].sinceDiscard <= 1
       /\ builds[m].total = 0 => uvBoundsTree[m] = 0
  /\ (LookedUp /\ call.tree # 0) => uvBoundsTree[call.mesh] = call.tree
  /\ (LookedUp /\ call.tree = 0) =>
       /\ uvBoundsTree[call.mesh] = builds[call.mesh].total
       /\ builds[call.mesh].sinceDiscard = 1
  /\ (call.op = "lookup" /\ call.kind = "return") =>
       call.bvh = uvBoundsTree[call.mesh]
  /\ call.op = "dispose" => uvBoundsTree[call.mesh] = 0
  /\ (Traced /\ call.faceIndex # NoHint) => uvBoundsTree[call.mesh] = call.tree

\* a PixiTexture traced a mesh whose index was discarded once and built anew,
\* and found the second index in place
C22_Witness ==
  /\ Traced /\ call.caller = "PixiTexture2"
  /\ call.tree = MaxBuilds
  /\ uvBoundsTree[call.mesh] = MaxBuilds
  /\ builds[call.mesh].sinceDiscard = 1

\* the side of the line from a to b the point p lies on
Side(p, a, b) ==
  Sign((b[1] - a[1]) * (p[2] - a[2]) - (b[2] - a[2]) * (p[1] - a[1]))

\* the UV triangle of a face holds the UV: it lies on no two opposite sides
\* of the edges of a triangle that is not degenerate
HoldsUv(g, f, uv) ==
  LET a == g.uv[VertexOf(g, f, 1)]
      b == g.uv[VertexOf(g, f, 2)]
      c == g.uv[VertexOf(g, f, 3)]
      sides == {Side(uv, a, b), Side(uv, b, c), Side(uv, c, a)}
  IN Side(c, a, b) # 0 /\ ~({1, -1} \subseteq sides)

\* the faces a trace is asked about: all of them, or the one of the faceIndex
Asked(g, faceIndex) ==
  IF faceIndex = NoHint THEN Faces(g) ELSE Faces(g) \cap {faceIndex}

\* C23: a trace on a geometry with UVs returns, and its matches are the
\* traces of exactly the faces asked about whose UV triangle holds the UV,
\* one per face: several where UV triangles overlap, none where no face
\* holds the UV.
C23_AllContaining ==
  (Traced /\ ~LacksUv) =>
    /\ call.kind = "return"
    /\ {r.faceIndex : r \in call.results}
         = {f \in Asked(Meshes[call.mesh], call.faceIndex) :
              HoldsUv(Meshes[call.mesh], f, call.uv)}
    /\ \A r, q \in call.results : r.faceIndex = q.faceIndex => r = q

\* a trace on the mesh with mirrored UVs gave two matches at two positions
C23_Witness ==
  /\ Traced /\ call.mesh = "mirrored"
  /\ \E r, q \in call.results :
       /\ r.faceIndex # q.faceIndex
       /\ r.position # q.position

\* the trace asked for UV (0.5, 0.5) on the unit quad
CentreOfQuad ==
  /\ Traced /\ call.mesh \in {"quad", "flat"}
  /\ 2 * call.uv[1] = UvUnit
  /\ 2 * call.uv[2] = UvUnit

\* C24: on the planar quad with UVs (0,0)-(1,0)-(1,1)-(0,1) at the positions
\* (0,0,0)-(1,0,0)-(1,1,0)-(0,1,0), the trace of UV (0.5, 0.5) returns exactly
\* one match, at position (0.5, 0.5, 0) with normal (0, 0, 1).
C24_OneMatch ==
  CentreOfQuad =>
    /\ call.kind = "return"
    /\ Cardinality(call.results) = 1
    /\ \A r \in call.results :
         /\ Equals(r.position, <<UvUnit, UvUnit, 0>>, 2)
         /\ Equals(r.normal, <<0, 0, 1>>, 1)

(***************************************************************************)
(* Properties of the coordinate mappings                                   *)
(***************************************************************************)
Mapped == call.op \in {"map", "inverse"}

TakesBounds == call.fn \notin {"mapUvToNdc", "mapNdcToUv"}

TakesViewport == call.fn \in {"mapClientToViewport", "mapViewportToClient"}

\* a width or a height the call was given is 0
ZeroArea ==
  \/ TakesBounds /\ (call.bounds.width = 0 \/ call.bounds.height = 0)
  \/ TakesViewport /\ (call.viewport.width = 0 \/ call.viewport.height = 0)

\* v lies in the rectangle from (x, y) to (x + width, y + height), borders
\* included
Within(v, x, y, width, height) ==
  /\ Le(Whole(x), v[1]) /\ Le(v[1], Whole(x + width))
  /\ Le(Whole(y), v[2]) /\ Le(v[2], Whole(y + height))

\* v lies in the range of the space named: the bounds or the client
\* rectangle, the viewport, [0, 1] for UV, [-1, 1] for normalized device
InRange(space, v) ==
  CASE space = "pixi" \/ space = "client" ->
         Within(v, call.bounds.x, call.bounds.y,
                call.bounds.width, call.bounds.height)
    [] space = "viewport" ->
         Within(v, 0, 0, call.viewport.width, call.viewport.height)
    [] space = "uv" -> Within(v, 0, 0, 1, 1)
    [] space = "ndc" -> Within(v, -1, -1, 2, 2)

\* the spaces a mapping leads from and to
From(fn) ==
  CASE fn \in {"mapUvToPixi", "mapUvToNdc"} -> "uv"
    [] fn \in {"mapPixiToUv", "mapPixiToNdc"} -> "pixi"
    [] fn \in {"mapNdcToPixi", "mapNdcToUv"} -> "ndc"
    [] fn = "mapClientToViewport" -> "client"
    [] fn = "mapViewportToClient" -> "viewport"

To(fn) == From(Inverse(fn))

\* C25: for every pair of adjacent spaces and all bounds of non-zero area
\* (zero-area bounds are not in the domain of a mapping), a mapping followed
\* by its inverse gives back the value it was given; the numbers are exact,
\* so the distance is 0.
C25_RoundTrip ==
  (call.op = "inverse" /\ ~ZeroArea) => SameVec(call.back, call.v)

\* a point outside offset bounds went to normalized device coordinates and
\* back
C25_Witness ==
  /\ call.op = "inverse" /\ ~ZeroArea
  /\ call.fn = "mapPixiToNdc"
  /\ call.bounds.x # 0
  /\ ~InRange("pixi", call.v)
  /\ ~Same(call.out[2], Whole(0))

\* C26: over bounds of non-zero area every mapping returns a value for every
\* input, and the value lies in the range of the target space exactly if
\* the input lies in the range of the source space: in [0, 1] for UV and in
\* [-1, 1] for normalized device coordinates exactly if the point lies in
\* the bounds.
C26_Total ==
  (Mapped /\ ~ZeroArea) =>
    /\ call.kind = "return"
    /\ FiniteVec(call.out)
    /\ InRange(To(call.fn), call.out) <=> InRange(From(call.fn), call.v)

\* a point outside the bounds was mapped to a UV outside [0, 1]
C26_Witness ==
  /\ call.op = "map" /\ ~ZeroArea
  /\ call.fn = "mapPixiToUv"
  /\ call.bounds.x # 0
  /\ ~InRange("pixi", call.v)
  /\ FiniteVec(call.out) /\ ~InRange("uv", call.out)

\* C27: a mapping called with bounds, a rectangle or a viewport of width or
\* height 0 throws; it does not return.
C27_ZeroAreaFails == (Mapped /\ ZeroArea) => call.kind = "throw"

(***************************************************************************)
(* Properties of the context hooks                                         *)
(***************************************************************************)
\* a hook was called where no boundary provides the context it reads
HookWithoutContext ==
  call.op = "hook" /\ UseContext(call.hook, call.where) = Outside

FailedFast ==
  /\ call.kind = "throw"
  /\ call.error[2] = "must be called within"

\* C28 (as stated): a hook called where no boundary provides its context,
\* useViewport, useInvalidate and the scene and texture context hooks among
\* them, throws a "must be called within" error.
C28_Original == HookWithoutContext => FailedFast

\* C28 (amended): useViewport, useCanvasTree, useThreeSceneContext and
\* usePixiTextureContext throw a "must be called within" error where no
\* boundary provides their context; useInvalidate returns a function that
\* does nothing there, and useEffectInvalidate invalidates nothing.
C28_Amended ==
  HookWithoutContext =>
    IF call.hook \in {"useInvalidate", "useEffectInvalidate"}
    THEN call.kind = "return" /\ call.noop
    ELSE FailedFast /\ call.error[3] = Component(call.hook)

\* useViewport was called by a component under no boundary, and threw
C28_Witness ==
  /\ HookWithoutContext
  /\ call.hook = "useViewport" /\ call.where = Outside
  /\ call.kind = "throw"

(***************************************************************************)
(* Properties of mounting and unmounting                                   *)
(***************************************************************************)
HasRendered == call.op = "tick" /\ call.rendered

\* C29: once a boundary is destroyed no render is issued against its
\* destroyed target, neither by its own render callback nor by a render of
\* its parent that samples the target.
C29_NoRenderAfterDestroy ==
  HasRendered => call.target # "destroyed" /\ "destroyed" \notin call.sampled

\* C30: a boundary renders only when the application is initialized and the
\* target of the boundary has been created, and the render callback of a
\* three scene runs only after renderer.init() has resolved and the runner
\* that advances the root has been added.
C30_InitGatesRender ==
  /\ HasRendered => call.pixi /\ call.target # "none"
  /\ (call.op = "tick" /\ HostedBy(call.b) = "three") => call.three = "ready"

\* a three scene has rendered into its target
C30_Witness ==
  /\ HasRendered /\ Kind(call.b) = "three-scene"
  /\ call.target = "live" /\ call.three = "ready"

(***************************************************************************)
(* SpecRunner: the effects of ThreeRoot and its asynchronous calls of      *)
(* initThree(), each of which registers a prerender runner                 *)
(***************************************************************************)
KeepRunner ==
  UNCHANGED <<schedVars, sizeVars, histVars, fpsVars, eventVars, uvBoundsTree,
              builds, call, life, clientWidth, eventBoundaries, rootEvents,
              bound, subscriberVars, recorderVars>>

\* the cleanup function of call k runs: prerender.remove(runner)
Removed(k) == runners \ {k}

\* the first effect runs, at mount (once pixi is initialised) and whenever
\* one of its dependencies has changed: void initThree(), which runs up to
\* await renderer.init()
InitThreeCall ==
  /\ rootMounted
  /\ \E k \in InitIds :
       /\ inits[k] = "none"
       /\ \A j \in InitIds : j < k => inits[j] # "none"
       /\ inits' = [inits EXCEPT ![k] = "init"]
  /\ UNCHANGED <<rootMounted, runners, cleanupFn, effectCleanup>>
  /\ KeepRunner

\* renderer.init() of call k resolves: createRoot, configure and render, up
\* to the await of onCreated
RendererReady(k) ==
  /\ inits[k] = "init"
  /\ inits' = [inits EXCEPT ![k] = "configure"]
  /\ UNCHANGED <<rootMounted, runners, cleanupFn, effectCleanup>>
  /\ KeepRunner

\* onCreated of call k resolves: prerender.add(runner); setCleanupFn(...),
\* which React drops when the component is unmounted
Created(k) ==
  /\ inits[k] = "configure"
  /\ inits' = [inits EXCEPT ![k] = "done"]
  /\ runners' = runners \cup {k}
  /\ cleanupFn' = IF rootMounted THEN k ELSE cleanupFn
  /\ UNCHANGED <<rootMounted, effectCleanup>>
  /\ KeepRunner

\* React commits the new cleanupFn: the effect on [cleanupFn] runs the cleanup
\* it returned last and returns cleanupFn
CommitCleanupFn ==
  /\ rootMounted
  /\ cleanupFn # effectCleanup
  /\ runners' = Removed(effectCleanup)
  /\ effectCleanup' = cleanupFn
  /\ UNCHANGED <<rootMounted, inits, cleanupFn>>
  /\ KeepRunner

\* ThreeRoot unmounts: the effect on [cleanupFn] runs the cleanup it returned
\* last
UnmountThreeRoot ==
  /\ rootMounted
  /\ rootMounted' = FALSE
  /\ runners' = Removed(effectCleanup)
  /\ effectCleanup' = NoInit
  /\ UNCHANGED <<inits, cleanupFn>>
  /\ KeepRunner

InitRunner == IdleSchedule /\ NoEvents /\ NoCalls

RendererReadyAction == \E k \in InitIds : RendererReady(k)

CreatedAction == \E k \in InitIds : Created(k)

NextRunner ==
  \/ InitThreeCall
  \/ RendererReadyAction
  \/ CreatedAction
  \/ CommitCleanupFn
  \/ UnmountThreeRoot

SpecRunner == InitRunner /\ [][NextRunner]_vars

(***************************************************************************)
(* SpecRecorder: useCanvasRecorder, the MediaRecorders it creates and the   *)
(* events they deliver.  The functions called are those of the last render *)
(***************************************************************************)
KeepRecorder ==
  UNCHANGED <<schedVars, sizeVars, histVars, fpsVars, eventVars, uvBoundsTree,
              builds, call, life, clientWidth, eventBoundaries, rootEvents,
              bound, subscriberVars, runnerVars>>

\* setRecordingState(state): React drops the update of an unmounted component
SetRecordingState(state) == IF hookMounted THEN state ELSE recordingState

\* setError(e)
SetError(e) == IF hookMounted THEN e ELSE error

\* MediaRecorder.stop() of r: an inactive recorder does nothing; otherwise it
\* becomes inactive and queues its stop event
Stopped(r) ==
  IF recorders[r] = "inactive" THEN <<recorders, tasks>>
  ELSE <<[recorders EXCEPT ![r] = "inactive"],
         Append(tasks, [type |-> "stop", recorder |-> r])>>

\* how a call of startRecording() may go: the canvas is missing, captureStream
\* or new MediaRecorder throws, or the recorder starts
StartOutcomes == {"noCanvas", "throws", "started"}

startRecording(outcome) ==
  /\ hookMounted
  /\ lastCall' = "startRecording"
  /\ CASE outcome = "noCanvas" ->
            /\ error' = SetError(TRUE)
            /\ UNCHANGED <<recordingState, mediaRecorderRef, recorders>>
       [] outcome = "throws" ->
            /\ error' = SetError(TRUE)
            /\ recordingState' = SetRecordingState("inactive")
            /\ UNCHANGED <<mediaRecorderRef, recorders>>
       [] outcome = "started" ->
            \E r \in RecorderIds :
              /\ recorders[r] = "none"
              /\ \A q \in RecorderIds : q < r => recorders[q] # "none"
              /\ recorders' = [recorders EXCEPT ![r] = "recording"]
              /\ mediaRecorderRef' = r
              /\ recordingState' = SetRecordingState("recording")
              /\ error' = SetError(FALSE)
  /\ UNCHANGED <<tasks, completed, hookMounted>>
  /\ KeepRecorder

stopRecording ==
  /\ hookMounted
  /\ lastCall' = "stopRecording"
  /\ IF mediaRecorderRef = NoRecorder \/ recordingState = "inactive"
     THEN UNCHANGED <<recorders, tasks>>
     ELSE /\ recorders' = Stopped(mediaRecorderRef)[1]
          /\ tasks' = Stopped(mediaRecorderRef)[2]
  /\ UNCHANGED <<recordingState, error, mediaRecorderRef, completed,
                 hookMounted>>
  /\ KeepRecorder

\* MediaRecorder.pause() throws InvalidStateError on an inactive recorder
pauseRecording ==
  /\ hookMounted
  /\ lastCall' = "pauseRecording"
  /\ IF /\ mediaRecorderRef # NoRecorder
        /\ recordingState = "recording"
        /\ recorders[mediaRecorderRef] # "inactive"
     THEN /\ recorders' = [recorders EXCEPT ![mediaRecorderRef] = "paused"]
          /\ recordingState' = SetRecordingState("paused")
     ELSE UNCHANGED <<recorders, recordingState>>
  /\ UNCHANGED <<error, mediaRecorderRef, tasks, completed, hookMounted>>
  /\ KeepRecorder

\* MediaRecorder.resume() throws InvalidStateError on an inactive recorder
resumeRecording ==
  /\ hookMounted
  /\ lastCall' = "resumeRecording"
  /\ IF /\ mediaRecorderRef # NoRecorder
        /\ recordingState = "paused"
        /\ recorders[mediaRecorderRef] # "inactive"
     THEN /\ recorders' = [recorders EXCEPT ![mediaRecorderRef] = "recording"]
          /\ recordingState' = SetRecordingState("recording")
     ELSE UNCHANGED <<recorders, recordingState>>
  /\ UNCHANGED <<error, mediaRecorderRef, tasks, completed, hookMounted>>
  /\ KeepRecorder

\* a recorder that records or is paused fails: it becomes inactive and queues
\* its error event and then its stop event
RecorderFails(r) ==
  /\ recorders[r] \in {"recording", "paused"}
  /\ lastCall' = "fail"
  /\ recorders' = [recorders EXCEPT ![r] = "inactive"]
  /\ tasks' = tasks \o <<[type |-> "error", recorder |-> r],
                         [type |-> "stop", recorder |-> r]>>
  /\ UNCHANGED <<recordingState, error, mediaRecorderRef, completed,
                 hookMounted>>
  /\ KeepRecorder

\* mediaRecorder.onerror
onerror ==
  /\ tasks # <<>> /\ Head(tasks).type = "error"
  /\ lastCall' = "onerror"
  /\ tasks' = Tail(tasks)
  /\ error' = SetError(TRUE)
  /\ recordingState' = SetRecordingState("inactive")
  /\ UNCHANGED <<mediaRecorderRef, recorders, completed, hookMounted>>
  /\ KeepRecorder

\* mediaRecorder.onstop
onstop ==
  /\ tasks # <<>> /\ Head(tasks).type = "stop"
  /\ lastCall' = "onstop"
  /\ tasks' = Tail(tasks)
  /\ completed' = [completed EXCEPT ![Head(tasks).recorder] = @ + 1]
  /\ mediaRecorderRef' = NoRecorder
  /\ recordingState' = SetRecordingState("inactive")
  /\ UNCHANGED <<error, recorders, hookMounted>>
  /\ KeepRecorder

\* the cleanup of the effect: mediaRecorderRef.current?.stop()
UnmountRecorder ==
  /\ hookMounted
  /\ hookMounted' = FALSE
  /\ lastCall' = "unmount"
  /\ IF mediaRecorderRef = NoRecorder
     THEN UNCHANGED <<recorders, tasks>>
     ELSE /\ recorders' = Stopped(mediaRecorderRef)[1]
          /\ tasks' = Stopped(mediaRecorderRef)[2]
  /\ UNCHANGED <<recordingState, error, mediaRecorderRef, completed>>
  /\ KeepRecorder

InitRecorder == IdleSchedule /\ NoEvents /\ NoCalls

StartRecordingAction == \E outcome \in StartOutcomes : startRecording(outcome)

RecorderFailsAction == \E r \in RecorderIds : RecorderFails(r)

NextRecorder ==
  \/ StartRecordingAction
  \/ stopRecording
  \/ pauseRecording
  \/ resumeRecording
  \/ RecorderFailsAction
  \/ onerror
  \/ onstop
  \/ UnmountRecorder

SpecRecorder == InitRecorder /\ [][NextRecorder]_vars

(***************************************************************************)
(* Properties of the size of the root canvas                               *)
(***************************************************************************)
RootRendered == lastOp.op = "tick" /\ lastOp.b = Root /\ lastOp.rendered

\* C31: whenever the root has rendered, the applied size is the host size
\* observed last, whatever kept the root from rendering while it was observed
\* (the fps ceiling, a cleared flag, a hidden canvas); and the applied size
\* changes only in a tick of the root that renders, which stores the size in
\* the snapshot and hands it to the subscriber that resizes the hit area and
\* the render target
C31_AppliedAtRender ==
  /\ [](RootRendered => appliedSize = pendingSize)
  /\ [][appliedSize' # appliedSize =>
         /\ RootRendered'
         /\ sizeSnapshot'[Root].width = appliedSize'
         /\ hitArea' = appliedSize'
         /\ targetSize'[Root].width = appliedSize']_vars

\* a size observed under the fps ceiling has been applied by the first render
\* the ceiling allowed
C31_Witness ==
  /\ RootRendered
  /\ lastOp.ceiling = "elapsed"
  /\ appliedSize = MaxSize
  /\ targetSize[Root].width = MaxSize

(***************************************************************************)
(* Properties of the fps ceiling                                           *)
(***************************************************************************)
\* consecutive renders of the root lie at least 1000 / fpsLimit ms apart
RendersSpaced ==
  \A i \in 1 .. Len(recent) - 1 :
    (recent[i + 1] - recent[i]) * fpsLimit[Root] >= UnitsPerSecond

\* C32 (as stated): with fpsLimit set, two renders of a boundary are never
\* less than 1000 / fpsLimit milliseconds apart, whether the boundary is in
\* always mode or in demand mode.
C32_Original == fpsLimit[Root] # NoLimit => RendersSpaced

\* C32 (amended): with fpsLimit set, two renders of a boundary in demand mode
\* are never less than 1000 / fpsLimit milliseconds apart.
C32_Amended ==
  (fpsLimit[Root] # NoLimit /\ frameloop[Root] = "demand") => RendersSpaced

\* a demand-mode boundary, invalidated before every tick, has rendered twice,
\* 1000 / fpsLimit milliseconds apart
C32_Witness ==
  /\ frameloop[Root] = "demand"
  /\ Len(recent) >= 2
  /\ (recent[2] - recent[1]) * fpsLimit[Root] = UnitsPerSecond

(***************************************************************************)
(* Properties of the over/out tracking of several pointers                 *)
(***************************************************************************)
\* C33: an event of a pointer that misses the PixiTexture is passed on as a
\* missed event (a dispatch of null) exactly when the event of that pointer
\* before it was over the PixiTexture, whatever the events of other pointers
\* in between.
C33_PerPointer ==
  [][(hostEvent'.kind = "chain" /\ hostEvent'.event.pointerId \notin overBy')
       => calls' = IF hostEvent'.event.pointerId \in overBy
                   THEN <<Null>> ELSE <<>>]_vars

(***************************************************************************)
(* Properties of the named registries and of the bound handlers            *)
(***************************************************************************)
\* every name has a boundary and root events, or neither, and the root events
\* of a name were made for its boundary
Paired ==
  /\ DOMAIN eventBoundaries = DOMAIN rootEvents
  /\ \A n \in DOMAIN rootEvents :
        /\ rootEvents[n].pointerEvent = eventBoundaries[n]
        /\ rootEvents[n].wheelEvent = eventBoundaries[n]

\* the lookup made last returned what the registry holds for the name
ReturnsEntry ==
  /\ (call.op = "eventBoundaries" /\ call.key \in BoundaryNames)
       => call.out = eventBoundaries[call.key]
  /\ (call.op = "rootEvents" /\ call.key \in BoundaryNames)
       => call.out = rootEvents[call.key]

\* C34: under any order of lookups through the two registries and through
\* bind(), a name has an event boundary exactly when it has root events, the
\* root events are bound to that boundary, every lookup returns the entry of
\* the name, and an entry once made is never replaced.
C34_RegistriesPaired ==
  /\ [](Paired /\ ReturnsEntry)
  /\ [][\A n \in DOMAIN eventBoundaries :
          /\ n \in DOMAIN eventBoundaries'
          /\ eventBoundaries'[n] = eventBoundaries[n]
          /\ rootEvents'[n] = rootEvents[n]]_vars

\* a name was looked up in rootEvents after another lookup had made its
\* entries, and both names have their pairs
C34_Witness ==
  /\ call.op = "rootEvents"
  /\ DOMAIN eventBoundaries = BoundaryNames
  /\ call.out.pointerEvent = eventBoundaries[call.key]
  /\ bound # <<>>

Handled == call.op = "handle"

Deliveries == {call.deliveries[i] : i \in DOMAIN call.deliveries}

\* C35: an event for which the guard of a container returned false does not
\* reach the handler of that container as a hit: the point it is mapped to is
\* the missed point.
C35_GuardRefuses ==
  Handled => \A d \in Deliveries : ~d.testResult => d.point = MISSED_POINT

\* C36: the handler of wheel events is given the wheel root event of the
\* boundary, and every handler of pointer events its pointer root event.
C36_WheelRootEvent ==
  Handled =>
    \A d \in Deliveries :
      d.rootEvent = IF d.handler = "handleWheel" THEN "wheelEvent"
                    ELSE "pointerEvent"

(***************************************************************************)
(* Properties of the subscribers of the size snapshot                      *)
(***************************************************************************)
\* every subscriber holds the size the store holds
SubscribersCurrent ==
  \A i \in Range(subscribers) : seen[i] = sizeSnapshot[Root]

\* C37: when a tick of the root starts, every subscriber holds the size the
\* snapshot holds (every change of the snapshot has been notified), and no
\* callback is invoked after it was unsubscribed
C37_SubscribersNotified ==
  /\ [][lastOp'.op = "tick" => SubscribersCurrent]_vars
  /\ [](notified.late = {})

\* the half of C37 the store keeps: no callback is invoked after it was
\* unsubscribed
NoLateCallback == notified.late = {}

(***************************************************************************)
(* Properties of the prerender runner of a 3D root                         *)
(***************************************************************************)
\* no call of initThree() is between two of its steps
NoPendingInit == \A k \in InitIds : inits[k] \in {"none", "done"}

\* C38: at most one prerender runner is registered at any time, and none is
\* registered once the root is unmounted and no initialization is pending
C38_OneRunner ==
  /\ Cardinality(runners) <= 1
  /\ (~rootMounted /\ NoPendingInit) => runners = {}

(***************************************************************************)
(* Properties of the canvas recorder                                       *)
(***************************************************************************)
\* the changes of recordingState with what causes them
RecorderEdge ==
  \/ /\ recordingState = "inactive" /\ recordingState' = "recording"
     /\ lastCall' = "startRecording"
  \/ /\ recordingState = "recording" /\ recordingState' = "paused"
     /\ lastCall' = "pauseRecording"
  \/ /\ recordingState = "paused" /\ recordingState' = "recording"
     /\ lastCall' = "resumeRecording"
  \/ /\ recordingState' = "inactive"
     /\ lastCall' \in {"onstop", "onerror"}

\* the state of the hook and of its recorders
RecorderState ==
  <<recordingState, error, mediaRecorderRef, recorders, tasks, completed>>

\* a call of pauseRecording, resumeRecording or stopRecording in a state in
\* which it does not apply
Misplaced ==
  \/ lastCall' = "pauseRecording" /\ recordingState # "recording"
  \/ lastCall' = "resumeRecording" /\ recordingState # "paused"
  \/ lastCall' = "stopRecording" /\ recordingState = "inactive"

\* the recordings that were started
Started == {r \in RecorderIds : recorders[r] # "none"}

\* onComplete has been called at most once for every recording, and once for
\* every recording when the hook is unmounted and no event is left to deliver
CompletedOnce ==
  /\ \A r \in RecorderIds : completed[r] <= 1
  /\ (~hookMounted /\ tasks = <<>>) => \A r \in Started : completed[r] = 1

\* C39: recordingState changes only from inactive to recording by
\* startRecording, between recording and paused by pauseRecording and
\* resumeRecording, and to inactive by the stop or the error of a recorder;
\* pauseRecording, resumeRecording and stopRecording called in another state
\* change nothing; onComplete is called exactly once for every recording that
\* was started
C39_RecorderStates ==
  /\ [][recordingState' # recordingState => RecorderEdge]_vars
  /\ [][Misplaced => UNCHANGED RecorderState]_vars
  /\ []CompletedOnce

====
